---- MODULE Spec2Model ----
(***************************************************************************)
(* Model of the LaTeX processing core of AutoAccess:                       *)
(*   src/utils/latexValidator.ts  (validateLatex)                          *)
(*   src/utils/latexToHtml.ts     (convertLatexToHtml, restoreMath)        *)
(* Strings are TLA+ strings, read as JavaScript strings: Len, SubSeq and   *)
(* \o are the length, the substring and the concatenation.  Positions are  *)
(* 1-based here and 0-based in the source.                                 *)
(***************************************************************************)
EXTENDS Integers, Sequences, FiniteSets, TLC

VARIABLES
    lex,      \* [words, max, watch]: the lexemes the source is typed from, how
              \* many of them at most, and whether the locals that finished
              \* calls leave behind are kept in view (fixed by Init)
    latex,    \* the LaTeX source: result.latexCode
    typed,    \* the number of lexemes typed so far
    issues,   \* [done, list]: the issue list validateLatex(latex) returned
    conv,     \* [done, html, mathMap]: what convertLatexToHtml(latex) returned
    locals    \* [envStack, mathN, prior]: the envStack the last call of
              \* validateLatex left and the mathN the last call of
              \* convertLatexToHtml left (garbage in JavaScript: no reference to
              \* them survives the call), and prior, the two as the last call
              \* found them

\* src/components/ResultDisplay.tsx
VARIABLES
    timers,              \* the pending callbacks of setTimeout (line 166), oldest
                         \* first, each the result.latexCode its closure holds
    validationIssues,    \* line 162
    showCompileWarning,  \* line 147
    isCompiling,         \* line 142
    compileError,        \* line 144
    pdfBlob,             \* whether result.pdfBlob is set
    pdfSource,           \* the source result.pdfBlob was compiled from, "" without
                         \* a blob
    compiling,           \* the calls of compileToPdf in flight (line 242), each
                         \* [src, mounted]: the result.latexCode it was given and
                         \* whether the component that made it is still mounted
    requests             \* the number of calls of compileToPdf so far

\* src/App.tsx
VARIABLES
    isLoading,    \* line 15
    result,       \* "null", "empty" for {} or "latex" for { latexCode }, the code
                  \* being latex
    error,        \* the text of the error banner, "none" for null
    abortRef,     \* whether abortRef.current holds a controller (line 19)
    fetch,        \* [state, cacheable]: the request of generateLatex: "none",
                  \* "pending" or "aborted", and whether its text is cached
    cache,        \* [kind, code]: the text cached for the question
                  \* (generationCache.ts): "none", "ok" (JSON with the code) or
                  \* "bad" (text that JSON.parse rejects)
    generations   \* the number of calls of handleGenerate so far

vars ==
    <<lex, latex, typed, issues, conv, locals, timers, validationIssues, showCompileWarning,
      isCompiling, compileError, pdfBlob, pdfSource, compiling, requests, isLoading, result, error, abortRef,
      fetch, cache, generations>>

(***************************************************************************)
(* Small arithmetic and string helpers.                                    *)
(***************************************************************************)
\* e, with x evaluated first: the model checker evaluates definitions on demand,
\* and a chain of string operations is otherwise evaluated innermost last
Strict(x, e) == IF x = x THEN e ELSE e

Min(S) == CHOOSE m \in S : \A k \in S : m <= k
Max(S) == CHOOSE m \in S : \A k \in S : m >= k

\* latex[i-1] of the source: the character at 1-based position i
CharAt(s, i) == SubSeq(s, i, i)

\* s.substring(i-1) with 1-based i
From(s, i) == SubSeq(s, i, Len(s))

\* whether the literal lit occurs in s at position i
StartsAt(s, i, lit) ==
    /\ i >= 1
    /\ i + Len(lit) - 1 <= Len(s)
    /\ SubSeq(s, i, i + Len(lit) - 1) = lit

\* String.prototype.includes
Includes(s, lit) == \E i \in 1..Len(s) : StartsAt(s, i, lit)

\* String.prototype.startsWith
StartsWith(s, lit) == StartsAt(s, 1, lit)

\* 1-based String.prototype.indexOf; 0 when absent
IndexOf(s, lit) ==
    LET hits == {i \in 1..Len(s) : StartsAt(s, i, lit)}
    IN  IF hits = {} THEN 0 ELSE Min(hits)

\* number of (possibly overlapping) positions at which lit occurs in s
CountOcc(s, lit) == Cardinality({i \in 1..Len(s) : StartsAt(s, i, lit)})

(***************************************************************************)
(* Character classes of the regular expressions of the source.             *)
(* A class is [neg, set]: the characters in set, or all but those.         *)
(***************************************************************************)
Lower == {"a", "b", "c", "d", "e", "f", "g", "h", "i", "j", "k", "l", "m",
          "n", "o", "p", "q", "r", "s", "t", "u", "v", "w", "x", "y", "z"}
Upper == {"A", "B", "C", "D", "E", "F", "G", "H", "I", "J", "K", "L", "M",
          "N", "O", "P", "Q", "R", "S", "T", "U", "V", "W", "X", "Y", "Z"}
WhiteSpace == {" ", "\n", "\t", "\r", "\f"}

ClsAny == [neg |-> TRUE, set |-> {}]                    \* [\s\S]
ClsDot == [neg |-> TRUE, set |-> {"\n", "\r"}]          \* .
ClsSpace == [neg |-> FALSE, set |-> WhiteSpace]         \* \s
ClsDigit == [neg |-> FALSE, set |-> {"0", "1", "2", "3", "4", "5", "6", "7", "8", "9"}]             \* \d
ClsAlpha == [neg |-> FALSE, set |-> Lower \cup Upper]   \* [a-zA-Z]
ClsNot(S) == [neg |-> TRUE, set |-> S]                  \* [^...]
ClsOf(S) == [neg |-> FALSE, set |-> S]

InCls(cl, ch) == (ch \in cl.set) # cl.neg

(***************************************************************************)
(* Regular expressions.  A regular expression is a sequence of items:      *)
(*   Lit(s)        the literal s                                           *)
(*   Star(c)       c*      Plus(c)      c+      Opt(c)   c?   (greedy)     *)
(*   Lazy(c)       c*?     LazyPlus(c)  c+?                                *)
(*   Alt(<<r1, .., rn>>)   (?:r1|..|rn), tried in this order               *)
(*   Open(n), Close(n)     the parentheses of capture group n              *)
(*   Ref(n)        the backreference \n                                    *)
(*   NotBehind(c)  (?<!c)  NotAhead(c)  (?!c)                              *)
(* Match is the backtracking matcher of JavaScript: the first alternative, *)
(* the longest (greedy) or shortest (lazy) repetition that lets the rest   *)
(* of the expression match.                                                *)
(***************************************************************************)
Lit(s) == [t |-> "lit", s |-> s]
Star(c) == [t |-> "star", c |-> c, min |-> 0]
Plus(c) == [t |-> "star", c |-> c, min |-> 1]
Opt(c) == [t |-> "opt", c |-> c]
Lazy(c) == [t |-> "lazy", c |-> c, min |-> 0]
LazyPlus(c) == [t |-> "lazy", c |-> c, min |-> 1]
Alt(rs) == [t |-> "alt", a |-> rs]
Open(n) == [t |-> "open", n |-> n]
Close(n) == [t |-> "close", n |-> n]
Ref(n) == [t |-> "ref", n |-> n]
NotBehind(c) == [t |-> "nb", c |-> c]
NotAhead(c) == [t |-> "na", c |-> c]

\* (?:r)? for a group r
OptGroup(r) == Alt(<<r, <<>>>>)

\* A match is <<end, o1, c1, o2, c2, o3, c3>>: the position after the match and
\* the bounds of the capture groups (0 when the group took no part); a failed
\* match is <<>>.
NoMatch == <<>>
NoCaps == <<0, 0, 0, 0, 0, 0, 0>>

\* the position after the longest run of characters of class c from i
RunEnd(c, s, i) ==
    LET stops == {k \in i..Len(s) : ~InCls(c, CharAt(s, k))}
    IN  IF stops = {} THEN Len(s) + 1 ELSE Min(stops)

RECURSIVE Match(_, _, _, _)
RECURSIVE MatchAlt(_, _, _, _, _, _)

Match(re, s, i, caps) ==
    IF re = <<>> THEN [caps EXCEPT ![1] = i]
    ELSE
      LET it == Head(re)
          rest == Tail(re)
      IN
      CASE it.t = "lit" ->
             IF StartsAt(s, i, it.s) THEN Match(rest, s, i + Len(it.s), caps)
             ELSE NoMatch
        [] it.t = "opt" ->
             LET with == IF i <= Len(s) /\ InCls(it.c, CharAt(s, i))
                         THEN Match(rest, s, i + 1, caps)
                         ELSE NoMatch
             IN  IF with # NoMatch THEN with ELSE Match(rest, s, i, caps)
        [] it.t \in {"star", "lazy"} ->
             LET e == RunEnd(it.c, s, i)
                 good == {j \in (i + it.min)..e : Match(rest, s, j, caps) # NoMatch}
             IN  IF good = {} THEN NoMatch
                 ELSE Match(rest, s, IF it.t = "lazy" THEN Min(good) ELSE Max(good), caps)
        [] it.t = "alt" -> MatchAlt(it.a, 1, rest, s, i, caps)
        [] it.t = "open" -> Match(rest, s, i, [caps EXCEPT ![2 * it.n] = i])
        [] it.t = "close" -> Match(rest, s, i, [caps EXCEPT ![2 * it.n + 1] = i])
        [] it.t = "ref" ->
             LET g == SubSeq(s, caps[2 * it.n], caps[2 * it.n + 1] - 1)
             IN  IF StartsAt(s, i, g) THEN Match(rest, s, i + Len(g), caps)
                 ELSE NoMatch
        [] it.t = "nb" ->
             IF i > 1 /\ InCls(it.c, CharAt(s, i - 1)) THEN NoMatch
             ELSE Match(rest, s, i, caps)
        [] it.t = "na" ->
             IF i <= Len(s) /\ InCls(it.c, CharAt(s, i)) THEN NoMatch
             ELSE Match(rest, s, i, caps)

MatchAlt(alts, k, rest, s, i, caps) ==
    IF k > Len(alts) THEN NoMatch
    ELSE LET r == Match(alts[k] \o rest, s, i, caps)
         IN  IF r # NoMatch THEN r ELSE MatchAlt(alts, k + 1, rest, s, i, caps)

\* the text of capture group n of the match m
Group(s, m, n) == SubSeq(s, m[2 * n], m[2 * n + 1] - 1)

\* the positions at which re matches in s
MatchStarts(re, s) == {i \in 1..Len(s) : Match(re, s, i, NoCaps) # NoMatch}

\* RegExp.prototype.exec from position `from`: [at, m] of the leftmost match
\* at or after it, at = 0 when there is none
ExecFrom(re, s, from) ==
    LET starts == {i \in from..Len(s) : Match(re, s, i, NoCaps) # NoMatch}
    IN  IF starts = {} THEN [at |-> 0, m |-> NoMatch]
        ELSE LET i == Min(starts) IN [at |-> i, m |-> Match(re, s, i, NoCaps)]

\* RegExp.prototype.test
Test(re, s) == MatchStarts(re, s) # {}

\* the list of the matches of a /g expression, left to right, none overlapping
\* (no expression of the source matches the empty string)
RECURSIVE AllMatchesFrom(_, _, _, _)
AllMatchesFrom(re, s, starts, from) ==
    LET live == {i \in starts : i >= from}
    IN  IF live = {} THEN <<>>
        ELSE LET i == Min(live)
                 m == Match(re, s, i, NoCaps)
             IN  <<[at |-> i, m |-> m]>> \o AllMatchesFrom(re, s, starts, m[1])

AllMatches(re, s) == AllMatchesFrom(re, s, MatchStarts(re, s), 1)

\* s.replace(/re/g, by) for a replacement string without $n
RECURSIVE ReplaceMatches(_, _, _, _)
ReplaceMatches(s, ms, from, by) ==
    IF ms = <<>> THEN From(s, from)
    ELSE SubSeq(s, from, Head(ms).at - 1) \o by
         \o ReplaceMatches(s, Tail(ms), Head(ms).m[1], by)

ReplaceAll(re, s, by) == Strict(s, ReplaceMatches(s, AllMatches(re, s), 1, by))

\* s.replace(/re/g, '')
RemoveAll(re, s) == ReplaceAll(re, s, "")

\* s.replace(/re/, '') without the g flag: the first match only
cutMatch(s, x) == IF x.at = 0 THEN s ELSE SubSeq(s, 1, x.at - 1) \o From(s, x.m[1])
RemoveFirst(re, s) == Strict(s, cutMatch(s, ExecFrom(re, s, 1)))

\* String.prototype.trim
Trim(s) ==
    LET keep == {i \in 1..Len(s) : CharAt(s, i) \notin WhiteSpace}
    IN  IF keep = {} THEN "" ELSE SubSeq(s, Min(keep), Max(keep))

(***************************************************************************)
(* src/utils/latexValidator.ts                                             *)
(***************************************************************************)
Issue(type, message) == [type |-> type, message |-> message]

\* declIssues with the three checks chained by else: the first missing marker
\* hides the others
declIssues_elseIf(s) ==
    IF ~Includes(s, "\\documentclass")
    THEN <<Issue("error", "Missing \\documentclass declaration.")>>
    ELSE IF ~Includes(s, "\\begin{document}")
    THEN <<Issue("error", "Missing \\begin{document}.")>>
    ELSE IF ~Includes(s, "\\end{document}")
    THEN <<Issue("error", "Missing \\end{document}.")>>
    ELSE <<>>

\* 1. Basic Document Structure Checks (lines 12-21)
declIssues(s) ==
    (IF ~Includes(s, "\\documentclass")
     THEN <<Issue("error", "Missing \\documentclass declaration.")>> ELSE <<>>)
    \o (IF ~Includes(s, "\\begin{document}")
        THEN <<Issue("error", "Missing \\begin{document}.")>> ELSE <<>>)
    \o (IF ~Includes(s, "\\end{document}")
        THEN <<Issue("error", "Missing \\end{document}.")>> ELSE <<>>)

\* isEscaped that counts the backslashes before the position: escaped after
\* an odd number of them
isEscaped_oddRun(s, i) ==
    (i - 1 - Max({k \in 1..(i - 1) : CharAt(s, k) # "\\"} \cup {0})) % 2 = 1

\* line 27: i > 0 && latex[i-1] === '\\' && (i === 1 || latex[i-2] !== '\\'),
\* for the 1-based position i (the source's i is i-1 here)
isEscaped(s, i) ==
    /\ i > 1
    /\ CharAt(s, i - 1) = "\\"
    /\ (i = 2 \/ CharAt(s, i - 2) # "\\")

\* braceStep without the escape test: every brace counts
braceStep_noEscape(s, i, braceDepth) ==
    IF CharAt(s, i) = "{" THEN braceDepth + 1
    ELSE IF CharAt(s, i) = "}" THEN braceDepth - 1
    ELSE braceDepth

\* lines 29-32: the depth after the character at position i
braceStep(s, i, braceDepth) ==
    IF ~isEscaped(s, i)
    THEN IF CharAt(s, i) = "{" THEN braceDepth + 1
         ELSE IF CharAt(s, i) = "}" THEN braceDepth - 1
         ELSE braceDepth
    ELSE braceDepth

\* braceLoop without the break: the scan goes on after the first negative depth
RECURSIVE braceLoop_noBreak(_, _, _)
braceLoop_noBreak(s, i, braceDepth) ==
    IF i > Len(s) THEN [braceDepth |-> braceDepth, brokeAt |-> 0]
    ELSE IF i = Len(s)
    THEN LET d == braceStep(s, i, braceDepth)
         IN  [braceDepth |-> d, brokeAt |-> IF d < 0 THEN i ELSE 0]
    ELSE LET mid == (i + Len(s)) \div 2
             r == braceLoop_noBreak(SubSeq(s, 1, mid), i, braceDepth)
             t == braceLoop_noBreak(s, mid + 1, r.braceDepth)
         IN  IF r.brokeAt # 0 THEN [t EXCEPT !.brokeAt = r.brokeAt] ELSE t

\* lines 25-38: the for loop from position i with the depth so far; the loop
\* breaks at the first negative depth.  The result is the final braceDepth and
\* the position at which the loop broke (0 when it ran to the end).  The
\* iterations i..Len(s) are those up to the middle position, on the text up
\* to it (isEscaped looks only backwards), and then, when the loop has not
\* broken, the iterations after it.
RECURSIVE braceLoop(_, _, _)
braceLoop(s, i, braceDepth) ==
    IF i > Len(s) THEN [braceDepth |-> braceDepth, brokeAt |-> 0]
    ELSE IF i = Len(s)
    THEN LET d == braceStep(s, i, braceDepth)
         IN  [braceDepth |-> d, brokeAt |-> IF d < 0 THEN i ELSE 0]
    ELSE LET mid == (i + Len(s)) \div 2
             r == braceLoop(SubSeq(s, 1, mid), i, braceDepth)
         IN  IF r.brokeAt # 0 THEN r ELSE braceLoop(s, mid + 1, r.braceDepth)

\* 2. Balanced Braces Check (lines 23-41)
braceIssues(s) ==
    LET r == braceLoop(s, 1, 0)
    IN  (IF r.brokeAt # 0
         THEN <<Issue("error",
                      "Found closing brace \"}\" without matching opening brace.")>>
         ELSE <<>>)
        \o (IF r.braceDepth > 0
            THEN <<Issue("error", "Found " \o ToString(r.braceDepth)
                                  \o " unclosed brace(s) \"{\".")>>
            ELSE <<>>)

\* line 45: /\\(begin|end)\s*\{([^}]+)\}/g
envRegex ==
    <<Lit("\\"), Open(1), Alt(<<<<Lit("begin")>>, <<Lit("end")>>>>), Close(1),
      Star(ClsSpace), Lit("{"), Open(2), Plus(ClsNot({"}"})), Close(2), Lit("}")>>

\* the tokens the while loop of line 48 reads: [type, name, index] in source order
envTokens(s) ==
    LET ms == AllMatches(envRegex, s)
    IN  [k \in 1..Len(ms) |->
            [type |-> Group(s, ms[k].m, 1),
             name |-> Group(s, ms[k].m, 2),
             index |-> ms[k].at - 1]]

\* envStep that leaves the frame on the stack when the \end matches it
envStep_keepOnMatch(st, tok) ==
    IF tok.type = "begin"
    THEN [st EXCEPT !.envStack = Append(@, [name |-> tok.name, index |-> tok.index])]
    ELSE IF Len(st.envStack) = 0
         THEN [st EXCEPT !.issues =
                  Append(@, Issue("error", "Extra \\end{" \o tok.name \o "} found."))]
         ELSE LET lastEnv == st.envStack[Len(st.envStack)]
              IN  IF lastEnv.name # tok.name
                  THEN [st EXCEPT !.issues = Append(@,
                            Issue("error",
                                  "Environment mismatch: Expected \\end{" \o lastEnv.name
                                  \o "} but found \\end{" \o tok.name \o "}."))]
                  ELSE st

\* envStep that does not push the popped frame back after a mismatch
envStep_dropOnMismatch(st, tok) ==
    IF tok.type = "begin"
    THEN [st EXCEPT !.envStack = Append(@, [name |-> tok.name, index |-> tok.index])]
    ELSE IF Len(st.envStack) = 0
         THEN [st EXCEPT !.issues =
                  Append(@, Issue("error", "Extra \\end{" \o tok.name \o "} found."))]
         ELSE LET lastEnv == st.envStack[Len(st.envStack)]
                  popped == SubSeq(st.envStack, 1, Len(st.envStack) - 1)
              IN  IF lastEnv.name # tok.name
                  THEN [envStack |-> popped,
                        issues |-> Append(st.issues,
                            Issue("error",
                                  "Environment mismatch: Expected \\end{" \o lastEnv.name
                                  \o "} but found \\end{" \o tok.name \o "}."))]
                  ELSE [st EXCEPT !.envStack = popped]

\* envStep that pushes, after a mismatch, the popped frame and one more for
\* the name found
envStep_pushFound(st, tok) ==
    IF tok.type = "begin"
    THEN [st EXCEPT !.envStack = Append(@, [name |-> tok.name, index |-> tok.index])]
    ELSE IF Len(st.envStack) = 0
         THEN [st EXCEPT !.issues =
                  Append(@, Issue("error", "Extra \\end{" \o tok.name \o "} found."))]
         ELSE LET lastEnv == st.envStack[Len(st.envStack)]
                  popped == SubSeq(st.envStack, 1, Len(st.envStack) - 1)
              IN  IF lastEnv.name # tok.name
                  THEN [envStack |-> st.envStack \o <<[name |-> tok.name, index |-> tok.index]>>,
                        issues |-> Append(st.issues,
                            Issue("error",
                                  "Environment mismatch: Expected \\end{" \o lastEnv.name
                                  \o "} but found \\end{" \o tok.name \o "}."))]
                  ELSE [st EXCEPT !.envStack = popped]

\* envStep that also pushes a frame for an \end met on the empty stack
envStep_pushOnExtra(st, tok) ==
    IF tok.type = "begin"
    THEN [st EXCEPT !.envStack = Append(@, [name |-> tok.name, index |-> tok.index])]
    ELSE IF Len(st.envStack) = 0
         THEN [envStack |-> <<[name |-> tok.name, index |-> tok.index]>>,
               issues |-> Append(st.issues,
                                 Issue("error", "Extra \\end{" \o tok.name \o "} found."))]
         ELSE LET lastEnv == st.envStack[Len(st.envStack)]
                  popped == SubSeq(st.envStack, 1, Len(st.envStack) - 1)
              IN  IF lastEnv.name # tok.name
                  THEN [envStack |-> Append(popped, lastEnv),
                        issues |-> Append(st.issues,
                            Issue("error",
                                  "Environment mismatch: Expected \\end{" \o lastEnv.name
                                  \o "} but found \\end{" \o tok.name \o "}."))]
                  ELSE [st EXCEPT !.envStack = popped]

\* lines 49-67: the body of the while loop for one token, from the state
\* [envStack, issues]
envStep(st, tok) ==
    IF tok.type = "begin"
    THEN [st EXCEPT !.envStack = Append(@, [name |-> tok.name, index |-> tok.index])]
    ELSE IF Len(st.envStack) = 0
         THEN [st EXCEPT !.issues =
                  Append(@, Issue("error", "Extra \\end{" \o tok.name \o "} found."))]
         ELSE LET lastEnv == st.envStack[Len(st.envStack)]
                  popped == SubSeq(st.envStack, 1, Len(st.envStack) - 1)
              IN  IF lastEnv.name # tok.name
                  THEN [envStack |-> Append(popped, lastEnv),
                        issues |-> Append(st.issues,
                            Issue("error",
                                  "Environment mismatch: Expected \\end{" \o lastEnv.name
                                  \o "} but found \\end{" \o tok.name \o "}."))]
                  ELSE [st EXCEPT !.envStack = popped]

\* lines 48-68: the while loop over the tokens from the k-th
RECURSIVE envLoop(_, _, _)
envLoop(toks, k, st) ==
    IF k > Len(toks) THEN st ELSE envLoop(toks, k + 1, envStep(st, toks[k]))

\* the state after the environment scan of s
envScan(s) == envLoop(envTokens(s), 1, [envStack |-> <<>>, issues |-> <<>>])

\* unclosedIssues that reports the frames from the top of the stack down
unclosedIssues_reversed(envStack) ==
    [k \in 1..Len(envStack) |->
        Issue("error", "Unclosed environment: \\begin{"
                       \o envStack[Len(envStack) + 1 - k].name \o "}.")]

\* lines 70-74: one error for each frame left, in forEach order
unclosedIssues(envStack) ==
    [k \in 1..Len(envStack) |->
        Issue("error", "Unclosed environment: \\begin{" \o envStack[k].name \o "}.")]

\* 3. Environment Nesting Check (lines 43-74)
envIssues(s) ==
    LET st == envScan(s) IN st.issues \o unclosedIssues(st.envStack)

\* the lower-case form of a text: of a letter, any other character
\* unchanged, and of a longer text half by half
RECURSIVE LowerOf(_)
LowerOf(ch) ==
    IF Len(ch) > 1
    THEN LowerOf(SubSeq(ch, 1, Len(ch) \div 2)) \o LowerOf(From(ch, Len(ch) \div 2 + 1))
    ELSE IF ch \in Upper
    THEN CharAt("abcdefghijklmnopqrstuvwxyz", IndexOf("ABCDEFGHIJKLMNOPQRSTUVWXYZ", ch))
    ELSE ch

\* whether lit (lower case) occurs in s at position i in any letter case
StartsAtI(s, i, lit) ==
    /\ i + Len(lit) - 1 <= Len(s)
    /\ \A k \in 1..Len(lit) : LowerOf(CharAt(s, i + k - 1)) = CharAt(lit, k)

\* forbiddenIssues with the test of line 77 without the i flag
forbiddenIssues_caseSensitive(s) ==
    IF Includes(s, "\\includegraphics")
    THEN <<Issue("error",
                 "Forbidden \\includegraphics command - images are not supported.")>>
    ELSE <<>>

\* 4. Forbidden \includegraphics command (lines 76-79): /\\includegraphics/i
forbiddenIssues(s) ==
    IF \E i \in 1..Len(s) : StartsAtI(s, i, "\\includegraphics")
    THEN <<Issue("error",
                 "Forbidden \\includegraphics command - images are not supported.")>>
    ELSE <<>>

reDollarDollar == <<Lit("$$"), Lazy(ClsAny), Lit("$$")>>       \* /\$\$[\s\S]*?\$\$/g
reBracket == <<Lit("\\["), Lazy(ClsAny), Lit("\\]")>>          \* /\\\[[\s\S]*?\\\]/g
reParen == <<Lit("\\("), Lazy(ClsAny), Lit("\\)")>>            \* /\\\([\s\S]*?\\\)/g

\* lines 83-86
stripped(s) == RemoveAll(reParen, RemoveAll(reBracket, RemoveAll(reDollarDollar, s)))

\* line 89: /(?<!\$)(?<!\\)\$(?!\$)/g
reSingleDollar ==
    <<NotBehind(ClsOf({"$"})), NotBehind(ClsOf({"\\"})), Lit("$"), NotAhead(ClsOf({"$"}))>>

\* singleDollarCount over the source as it is, no span removed
singleDollarCount_raw(s) == Len(AllMatches(reSingleDollar, s))

\* lines 89-90
singleDollarCount(s) == Len(AllMatches(reSingleDollar, stripped(s)))

\* 5. Unclosed math delimiters (lines 81-93)
dollarIssues(s) ==
    IF singleDollarCount(s) % 2 # 0
    THEN <<Issue("warning",
                 "Odd number of inline math delimiters ($) - possible unclosed math expression.")>>
    ELSE <<>>

\* (latex.match(/lit/g) || []).length for a literal of two characters
matchCount(s, lit) == Len(AllMatches(<<Lit(lit)>>, s))

\* bracketIssues that also warns when a \] stands before the first \[
bracketIssues_ordered(s) ==
    LET openBracketCount == matchCount(s, "\\[")
        closeBracketCount == matchCount(s, "\\]")
    IN  IF \/ openBracketCount # closeBracketCount
           \/ (closeBracketCount > 0 /\ IndexOf(s, "\\]") < IndexOf(s, "\\["))
        THEN <<Issue("warning",
                     "Mismatched display math delimiters: " \o ToString(openBracketCount)
                     \o " \\[ vs " \o ToString(closeBracketCount) \o " \\].")>>
        ELSE <<>>

\* lines 95-100
bracketIssues(s) ==
    LET openBracketCount == matchCount(s, "\\[")
        closeBracketCount == matchCount(s, "\\]")
    IN  IF openBracketCount # closeBracketCount
        THEN <<Issue("warning",
                     "Mismatched display math delimiters: " \o ToString(openBracketCount)
                     \o " \\[ vs " \o ToString(closeBracketCount) \o " \\].")>>
        ELSE <<>>

\* lines 102-106
parenIssues(s) ==
    LET openParenCount == matchCount(s, "\\(")
        closeParenCount == matchCount(s, "\\)")
    IN  IF openParenCount # closeParenCount
        THEN <<Issue("warning",
                     "Mismatched inline math delimiters: " \o ToString(openParenCount)
                     \o " \\( vs " \o ToString(closeParenCount) \o " \\).")>>
        ELSE <<>>

\* line 112: /(?<!\\)\$[^$\n]+?(?<!\\)\$/g
reInlineDollar ==
    <<NotBehind(ClsOf({"\\"})), Lit("$"), Open(1), LazyPlus(ClsNot({"$", "\n"})), Close(1),
      NotBehind(ClsOf({"\\"})), Lit("$")>>

\* line 115:
\* /\\begin\{(equation|align|gather|math|displaymath|multline)\*?\}[\s\S]*?\\end\{\1\*?\}/g
reMathEnvV ==
    <<Lit("\\begin{"), Open(1),
      Alt(<<<<Lit("equation")>>, <<Lit("align")>>, <<Lit("gather")>>, <<Lit("math")>>,
            <<Lit("displaymath")>>, <<Lit("multline")>>>>),
      Close(1), Opt(ClsOf({"*"})), Lit("}"), Lazy(ClsAny),
      Lit("\\end{"), Ref(1), Opt(ClsOf({"*"})), Lit("}")>>

\* lines 110-115
nonMath(s) ==
    ReplaceAll(reMathEnvV,
      ReplaceAll(reParen,
        ReplaceAll(reBracket,
          ReplaceAll(reInlineDollar,
            ReplaceAll(reDollarDollar, s, " "), " "), " "), " "), " ")

\* line 117
mathCommands ==
    <<"\\frac", "\\sum", "\\int", "\\prod", "\\lim", "\\sqrt", "\\alpha", "\\beta",
      "\\gamma", "\\delta", "\\epsilon", "\\theta", "\\lambda", "\\mu", "\\sigma",
      "\\omega", "\\pi", "\\infty", "\\partial", "\\nabla", "\\rightarrow",
      "\\leftarrow", "\\Rightarrow", "\\Leftarrow", "\\leq", "\\geq", "\\neq",
      "\\approx", "\\cdot", "\\times", "\\div">>

\* lines 119-124: the commands found in the non-math text, in list order
RECURSIVE foundFrom(_, _)
foundFrom(text, k) ==
    IF k > Len(mathCommands) THEN <<>>
    ELSE (IF Test(<<Lit(mathCommands[k]), NotAhead(ClsAlpha)>>, text)
          THEN <<mathCommands[k]>> ELSE <<>>)
         \o foundFrom(text, k + 1)

foundOutside(s) == foundFrom(nonMath(s), 1)

\* Array.prototype.join(', '): of a list of two or more, the join of its
\* first half, the separator, and the join of the rest
RECURSIVE Join(_, _)
Join(xs, sep) ==
    IF xs = <<>> THEN ""
    ELSE IF Len(xs) = 1 THEN xs[1]
    ELSE Join(SubSeq(xs, 1, Len(xs) \div 2), sep) \o sep
         \o Join(SubSeq(xs, Len(xs) \div 2 + 1, Len(xs)), sep)

\* 6. Common math commands used outside math mode (lines 108-128)
mathCmdIssues(s) ==
    LET found == foundOutside(s)
    IN  IF Len(found) > 0
        THEN LET list == Join(SubSeq(found, 1, IF Len(found) > 5 THEN 5 ELSE Len(found)), ", ")
                         \o (IF Len(found) > 5 THEN "..." ELSE "")
             IN  <<Issue("warning", "Math commands used outside math mode: " \o list
                                    \o ". Wrap in $...$ or \\[...\\].")>>
        ELSE <<>>

\* validateLatex without the early return of line 10
validateLatex_noEarlyReturn(s) ==
    declIssues(s) \o braceIssues(s) \o envIssues(s) \o forbiddenIssues(s)
    \o dollarIssues(s) \o bracketIssues(s) \o parenIssues(s) \o mathCmdIssues(s)

\* validateLatex with the forbidden command check moved before the
\* environment check
validateLatex_forbiddenEarly(s) ==
    IF s = "" THEN <<>>
    ELSE declIssues(s) \o braceIssues(s) \o forbiddenIssues(s) \o envIssues(s)
         \o dollarIssues(s) \o bracketIssues(s) \o parenIssues(s) \o mathCmdIssues(s)

\* validateLatex with the math checks (5 and 6) before the structure checks
validateLatex_mathChecksFirst(s) ==
    IF s = "" THEN <<>>
    ELSE dollarIssues(s) \o bracketIssues(s) \o parenIssues(s) \o mathCmdIssues(s)
         \o declIssues(s) \o braceIssues(s) \o envIssues(s) \o forbiddenIssues(s)

\* lines 7-131
validateLatex(s) ==
    IF s = "" THEN <<>>
    ELSE declIssues(s) \o braceIssues(s) \o envIssues(s) \o forbiddenIssues(s)
         \o dollarIssues(s) \o bracketIssues(s) \o parenIssues(s) \o mathCmdIssues(s)

(***************************************************************************)
(* src/utils/latexToHtml.ts                                                *)
(***************************************************************************)
\* the matched text of the match h = [at, m] in s
Whole(s, h) == SubSeq(s, h.at, h.m[1] - 1)

\* the text of capture group n of the match h in s
Cap(s, h, n) == Group(s, h.m, n)

\* the pieces of s between the matches ms: String.prototype.split on an
\* expression without capture group
RECURSIVE piecesFrom(_, _, _)
piecesFrom(s, ms, from) ==
    IF ms = <<>> THEN <<From(s, from)>>
    ELSE <<SubSeq(s, from, Head(ms).at - 1)>> \o piecesFrom(s, Tail(ms), Head(ms).m[1])

Split(s, re) == piecesFrom(s, AllMatches(re, s), 1)

\* String.prototype.split on an expression that is one capture group: the
\* matched separators are kept between the pieces
RECURSIVE piecesAndSepsFrom(_, _, _)
piecesAndSepsFrom(s, ms, from) ==
    IF ms = <<>> THEN <<From(s, from)>>
    ELSE <<SubSeq(s, from, Head(ms).at - 1), Whole(s, Head(ms))>>
         \o piecesAndSepsFrom(s, Tail(ms), Head(ms).m[1])

SplitKeep(s, re) == piecesAndSepsFrom(s, AllMatches(re, s), 1)

NonEmpty(x) == Len(x) > 0

\* .map(r => r.trim())
TrimAll(xs) == [k \in 1..Len(xs) |-> Trim(xs[k])]

\* .slice(1)
Slice1(xs) == SubSeq(xs, 2, Len(xs))

\* lines 14-16: the three replace calls of convertTabular
stripRules(content) ==
    RemoveAll(<<Alt(<<<<Lit("\\toprule")>>, <<Lit("\\midrule")>>, <<Lit("\\bottomrule")>>>>)>>,
      RemoveAll(<<Lit("\\cline{"), Lazy(ClsDot), Lit("}")>>,
        RemoveAll(<<Lit("\\hline")>>, content)))

\* lines 23-30: the row of 1-based index i with the cells
rowHtml(cells, i) ==
    LET tag == IF i = 1 THEN "th" ELSE "td"
        style == IF i = 1
                 THEN "padding:0.5rem 0.75rem;font-weight:600;color:var(--p-head);border-bottom:2px solid var(--p-border);text-align:left;font-size:0.8rem"
                 ELSE "padding:0.5rem 0.75rem;color:var(--p-sec);border-bottom:1px solid var(--p-border);font-size:0.8rem"
    IN  "<tr>"
        \o Join([k \in 1..Len(cells) |->
                   "<" \o tag \o " style=\"" \o style \o "\">" \o cells[k]
                   \o "</" \o tag \o ">"], "")
        \o "</tr>"

\* lines 21-32
tableRows(rows) ==
    Join([i \in 1..Len(rows) |-> rowHtml(TrimAll(Split(rows[i], <<Lit("&")>>)), i)], "")

\* lines 12-34
convertTabular(content, captionHtml) ==
    "<div style=\"overflow-x:auto;margin:1.25rem 0\"><table style=\"width:100%;border-collapse:collapse;border:1px solid var(--p-border);border-radius:8px;overflow:hidden\">"
    \o captionHtml \o "<tbody>"
    \o tableRows(SelectSeq(TrimAll(Split(stripRules(content), <<Lit("\\\\")>>)), NonEmpty))
    \o "</tbody></table></div>"

\* the tables of a call whose math counter goes on from where the call
\* before left it
NewTables_keepCounters(tex) ==
    [tex |-> tex, blocks |-> <<>>, blockN |-> 0, mathMap |-> <<>>, mathN |-> locals.mathN,
     fnN |-> 0]

\* lines 40-43: the tables and counters of one call
NewTables(tex) ==
    [tex |-> tex, blocks |-> <<>>, blockN |-> 0, mathMap |-> <<>>, mathN |-> 0, fnN |-> 0]

\* the entries of blocks and of mathMap are [k, v] pairs in insertion order
Keys(table) == {table[n].k : n \in 1..Len(table)}
Lookup(table, key) == table[CHOOSE n \in 1..Len(table) : table[n].k = key].v

\* lines 45-49
addBlock(st, html) ==
    LET k == "__BLK_" \o ToString(st.blockN) \o "__"
    IN  [out |-> "\n\n" \o k \o "\n\n",
         st |-> [st EXCEPT !.blockN = @ + 1, !.blocks = Append(@, [k |-> k, v |-> html])]]

\* storeMath that hands the math source back in place of the key
storeMath_inPlace(st, m) ==
    LET k == "__MTH_" \o ToString(st.mathN) \o "__"
    IN  [out |-> m,
         st |-> [st EXCEPT !.mathN = @ + 1, !.mathMap = Append(@, [k |-> k, v |-> m])]]

\* lines 50-54
storeMath(st, m) ==
    LET k == "__MTH_" \o ToString(st.mathN) \o "__"
    IN  [out |-> k,
         st |-> [st EXCEPT !.mathN = @ + 1, !.mathMap = Append(@, [k |-> k, v |-> m])]]

\* (?:\[.*?\])?
reOptArg == OptGroup(<<Lit("["), Lazy(ClsDot), Lit("]")>>)
\* \{.*?\}
reArg == <<Lit("{"), Lazy(ClsDot), Lit("}")>>
\* (?:\[\d+\])?
reOptNum == OptGroup(<<Lit("["), Plus(ClsDigit), Lit("]")>>)

\* line 77: /\\begin\{(align\*?|equation\*?|gather\*?|multline\*?)\}([\s\S]*?)\\end\{\1\}/g
reMathEnv ==
    <<Lit("\\begin{"), Open(1),
      Alt(<<<<Lit("align"), Opt(ClsOf({"*"}))>>, <<Lit("equation"), Opt(ClsOf({"*"}))>>,
            <<Lit("gather"), Opt(ClsOf({"*"}))>>, <<Lit("multline"), Opt(ClsOf({"*"}))>>>>),
      Close(1), Lit("}"), Open(2), Lazy(ClsAny), Close(2), Lit("\\end{"), Ref(1), Lit("}")>>

\* \\name\{([\s\S]*?)\}
reCmdAny(name) == <<Lit("\\" \o name \o "{"), Open(1), Lazy(ClsAny), Close(1), Lit("}")>>
\* \\name\{(.*?)\}
reCmd(name) == <<Lit("\\" \o name \o "{"), Open(1), Lazy(ClsDot), Close(1), Lit("}")>>
\* \\name\*?\{(.*?)\}
reCmdStar(name) ==
    <<Lit("\\" \o name), Opt(ClsOf({"*"})), Lit("{"), Open(1), Lazy(ClsDot), Close(1), Lit("}")>>

\* tex.match(/re/): the first match, at = 0 for null
MatchFirst(re, s) == ExecFrom(re, s, 1)

\* /\\begin\{tabular\}\{.*?\}([\s\S]*?)\\end\{tabular\}/
reTabular ==
    <<Lit("\\begin{tabular}{"), Lazy(ClsDot), Lit("}"), Open(1), Lazy(ClsAny), Close(1),
      Lit("\\end{tabular}")>>

\* \\begin\{name\}([\s\S]*?)\\end\{name\}
reEnv(name) ==
    <<Lit("\\begin{" \o name \o "}"), Open(1), Lazy(ClsAny), Close(1),
      Lit("\\end{" \o name \o "}")>>

\* /__BLK_\d+__/
reBlk == <<Lit("__BLK_"), Plus(ClsDigit), Lit("__")>>

\* lines 272-273: /__MTH_\d+__/g
reMth == <<Lit("__MTH_"), Plus(ClsDigit), Lit("__")>>

(***************************************************************************)
(* tex = tex.replace(/re/g, replacement).  A stage is one such statement:  *)
(* its expression, the kind of its replacement and, for a replacement that *)
(* wraps a capture group, the text before and after the group.  The        *)
(* matches ms are those of the string before any replacement; the replacer *)
(* is called once per match, left to right, and its calls leave            *)
(* [outs, st]: the replacement texts in match order and the tables and     *)
(* counters after the last call.                                           *)
(***************************************************************************)
Stage(kind, re, open, close) == [kind |-> kind, re |-> re, open |-> open, close |-> close]

pushOut(acc, r) == [outs |-> Append(acc.outs, r.out), st |-> r.st]

\* s from position `from` with each match of ms replaced by its text of outs
RECURSIVE replaceFrom(_, _, _, _)
replaceFrom(s, ms, outs, from) ==
    IF ms = <<>> THEN From(s, from)
    ELSE SubSeq(s, from, Head(ms).at - 1) \o Head(outs)
         \o replaceFrom(s, Tail(ms), Tail(outs), Head(ms).m[1])

\* m => addBlock(storeMath(m)) (lines 74-78)
blockMath(st, m) == LET stored == storeMath(st, m) IN addBlock(stored.st, stored.out)

\* lines 130-134: (_, c) => { fnN++; return `<sup ...>` }
footnoteRule(st, c) ==
    [out |-> "<sup style=\"color:var(--p-accent);cursor:help;font-size:0.75em\" title=\""
             \o ReplaceAll(<<Lit("\"")>>, c, "&quot;")
             \o "\">[" \o ToString(st.fnN + 1) \o "]</sup>",
     st |-> [st EXCEPT !.fnN = @ + 1]]

\* c.replace(/</g, '&lt;').replace(/>/g, '&gt;')
escapeAngle(c) == ReplaceAll(<<Lit(">")>>, ReplaceAll(<<Lit("<")>>, c, "&lt;"), "&gt;")

\* lines 184-187: the caption of the caption match
captionHtml(content, capM) ==
    IF capM.at # 0
    THEN "<caption style=\"caption-side:bottom;padding:0.5rem;font-size:0.75rem;color:var(--p-muted);font-style:italic\">"
         \o Cap(content, capM, 1) \o "</caption>"
    ELSE ""

\* lines 188-193: the block of a table with the matches of its content
tableOf(content, capM, tabM) ==
    IF tabM.at = 0
    THEN "<div style=\"margin:1.25rem 0\">" \o content \o "</div>"
    ELSE convertTabular(Cap(content, tabM, 1), captionHtml(content, capM))

\* lines 183-194
tableHtml(content) ==
    tableOf(content, MatchFirst(reCmd("caption"), content), MatchFirst(reTabular, content))

\* lines 209-212 and 226-229: .map(i => `<li ...>${i.trim()}</li>`).join('')
liHtml(items) ==
    Join([k \in 1..Len(items) |->
            "<li style=\"padding-left:0.375rem;margin-bottom:0.375rem;color:var(--p-sec)\">"
            \o Trim(items[k]) \o "</li>"], "")

\* listItems without .slice(1): the text before the first \item is an entry
listItems_noSlice(c) == liHtml(Split(Trim(c), <<Lit("\\item")>>))

\* lines 205-213 and 222-230: c.trim().split('\\item').slice(1).map(...).join('')
listItems(c) == liHtml(Slice1(Split(Trim(c), <<Lit("\\item")>>)))

\* lines 243-247: one entry with the position cb of its first ']' (0: none)
descEntry(i, cb) ==
    "<dt style=\"font-weight:600;color:var(--p-text)\">" \o SubSeq(i, 1, cb - 1)
    \o "</dt><dd style=\"margin-left:1.25rem;margin-bottom:0.5rem;color:var(--p-sec)\">"
    \o Trim(From(i, cb + 1)) \o "</dd>"

dlHtml(items) == Join([k \in 1..Len(items) |-> descEntry(items[k], IndexOf(items[k], "]"))], "")

\* lines 239-249
descriptionItems(c) == dlHtml(Slice1(Split(Trim(c), <<Lit("\\item[")>>)))

\* one call of the replacement of the stage for the match h of s, in the
\* state st: the replacement text and the state it leaves
replacerCall(st, stage, s, h) ==
    CASE stage.kind = "blockMath" -> blockMath(st, Whole(s, h))
      [] stage.kind = "storeMath" -> storeMath(st, Whole(s, h))
      \* 'open$1close'
      [] stage.kind = "wrap" ->
           [out |-> stage.open \o Cap(s, h, 1) \o stage.close, st |-> st]
      \* lines 121-124: '<a href="$1" ...>$2</a>'
      [] stage.kind = "href" ->
           [out |-> "<a href=\"" \o Cap(s, h, 1)
                    \o "\" target=\"_blank\" rel=\"noopener\" style=\"color:var(--p-accent);text-decoration:underline;text-underline-offset:2px\">"
                    \o Cap(s, h, 2) \o "</a>", st |-> st]
      \* lines 125-128: '<a href="$1" ...>$1</a>'
      [] stage.kind = "url" ->
           [out |-> "<a href=\"" \o Cap(s, h, 1)
                    \o "\" target=\"_blank\" rel=\"noopener\" style=\"color:var(--p-accent);font-family:'JetBrains Mono',monospace;font-size:0.85em\">"
                    \o Cap(s, h, 1) \o "</a>", st |-> st]
      [] stage.kind = "footnote" -> footnoteRule(st, Cap(s, h, 1))
      \* (_, c) => addBlock(`open${c}close`)
      [] stage.kind = "heading" ->
           addBlock(st, stage.open \o Cap(s, h, 1) \o stage.close)
      [] stage.kind = "pre" ->
           addBlock(st, stage.open \o escapeAngle(Cap(s, h, 1)) \o stage.close)
      [] stage.kind = "quote" ->
           addBlock(st, stage.open \o Trim(Cap(s, h, 1)) \o stage.close)
      [] stage.kind = "table" -> addBlock(st, tableHtml(Cap(s, h, 1)))
      [] stage.kind = "tabular" -> addBlock(st, convertTabular(Cap(s, h, 1), ""))
      [] stage.kind = "list" ->
           addBlock(st, stage.open \o listItems(Cap(s, h, 1)) \o stage.close)
      [] stage.kind = "description" ->
           addBlock(st, stage.open \o descriptionItems(Cap(s, h, 1)) \o stage.close)

\* the replacer calls for the matches ms of s, left to right
RECURSIVE replacerCalls(_, _, _, _)
replacerCalls(acc, stage, s, ms) ==
    IF ms = <<>> THEN acc
    ELSE replacerCalls(pushOut(acc, replacerCall(acc.st, stage, s, Head(ms))), stage, s,
                       Tail(ms))

\* the assignment to tex after the replacer calls r = [outs, st]
withTex(st, ms, r) == [r.st EXCEPT !.tex = replaceFrom(st.tex, ms, r.outs, 1)]

\* tex = tex.replace(stage.re, replacement of the stage)
replaceEach(st, stage) ==
    LET ms == AllMatches(stage.re, st.tex)
    IN  Strict(st, withTex(st, ms, replacerCalls([outs |-> <<>>, st |-> st], stage, st.tex, ms)))

\* the stages in statement order
RECURSIVE runStages(_, _)
runStages(st, stages) ==
    IF stages = <<>> THEN st ELSE runStages(replaceEach(st, Head(stages)), Tail(stages))

\* lines 56-71: Strip preamble / document env
stripPreamble(latexCode) ==
    Trim(
    RemoveAll(<<Lit("\\centering")>>,
    RemoveAll(<<Lit("\\label")>> \o reArg,
    RemoveAll(<<Lit("\\renewcommand")>> \o reArg
              \o <<reOptNum, Lit("{"), Lazy(ClsAny), Lit("}")>>,
    RemoveAll(<<Lit("\\newcommand")>> \o reArg
              \o <<reOptNum, Lit("{"), Lazy(ClsAny), Lit("}")>>,
    RemoveAll(<<Lit("\\thispagestyle")>> \o reArg,
    RemoveAll(<<Lit("\\pagestyle")>> \o reArg,
    RemoveAll(<<Lit("\\setlength")>> \o reArg \o reArg,
    RemoveAll(<<Lit("\\color")>> \o reArg,
    RemoveAll(<<Lit("\\definecolor")>> \o reArg \o reArg \o reArg,
    RemoveFirst(<<Lit("\\end{document}")>>,
    RemoveFirst(<<Lit("\\begin{document}")>>,
    RemoveAll(<<Lit("\\usepackage"), reOptArg>> \o reArg,
    RemoveAll(<<Lit("\\documentclass"), reOptArg>> \o reArg, latexCode))))))))))))))

\* lines 73-81: 1. Protect math
protectMath ==
    <<Stage("blockMath", reDollarDollar, "", ""),
      Stage("blockMath", reBracket, "", ""),
      Stage("blockMath", reMathEnv, "", ""),
      Stage("storeMath", reParen, "", ""),
      Stage("storeMath", reInlineDollar, "", "")>>

\* lines 93-104: the header of the title, author and date matches
headerHtml(tex, titleM, authorM, dateM) ==
    IF titleM.at # 0 \/ authorM.at # 0 \/ dateM.at # 0
    THEN "<div style=\"margin-bottom:2.5rem;text-align:center;padding-bottom:1.5rem;border-bottom:1px solid var(--p-border)\">"
         \o (IF titleM.at # 0
             THEN "<h1 style=\"font-size:1.875rem;font-weight:600;color:var(--p-head);margin-bottom:0.75rem;letter-spacing:-0.025em;font-family:'Space Grotesk',sans-serif\">"
                  \o Cap(tex, titleM, 1) \o "</h1>"
             ELSE "")
         \o (IF authorM.at # 0
             THEN "<p style=\"font-size:0.875rem;color:var(--p-accent)\">"
                  \o Cap(tex, authorM, 1) \o "</p>"
             ELSE "")
         \o (IF dateM.at # 0
             THEN "<p style=\"font-size:0.75rem;color:var(--p-muted);margin-top:0.375rem\">"
                  \o Cap(tex, dateM, 1) \o "</p>"
             ELSE "")
         \o "</div>"
    ELSE ""

\* lines 83-104: 2. Title / author / date; the result is [header, st].  The
\* three matches are taken on the tex of before the removals.
extractHeader(st) ==
    Strict(st,
      [header |-> headerHtml(st.tex, MatchFirst(reCmdAny("title"), st.tex),
                             MatchFirst(reCmdAny("author"), st.tex),
                             MatchFirst(reCmdAny("date"), st.tex)),
       st |-> [st EXCEPT !.tex =
                 RemoveFirst(<<Lit("\\maketitle")>>,
                   RemoveFirst(reCmdAny("date"),
                     RemoveFirst(reCmdAny("author"),
                       RemoveFirst(reCmdAny("title"), st.tex))))]])

\* lines 106-134: 3. Inline formatting
inlineFormatting ==
    <<Stage("wrap", reCmd("textbf"),
            "<strong style=\"font-weight:600;color:var(--p-text)\">", "</strong>"),
      Stage("wrap", reCmd("textit"), "<em style=\"color:var(--p-sec)\">", "</em>"),
      Stage("wrap", reCmd("emph"), "<em style=\"color:var(--p-sec)\">", "</em>"),
      Stage("wrap", reCmd("texttt"),
            "<code style=\"font-family:'JetBrains Mono',monospace;font-size:0.85em;padding:0.15em 0.3em;background:var(--p-code);border-radius:4px;color:var(--p-accent)\">",
            "</code>"),
      Stage("wrap", reCmd("underline"),
            "<u style=\"text-decoration-color:var(--p-muted)\">", "</u>"),
      \* /\\href\{(.*?)\}\{(.*?)\}/g
      Stage("href", <<Lit("\\href{"), Open(1), Lazy(ClsDot), Close(1), Lit("}{"),
                      Open(2), Lazy(ClsDot), Close(2), Lit("}")>>, "", ""),
      Stage("url", reCmd("url"), "", ""),
      Stage("footnote", reCmd("footnote"), "", "")>>

\* lines 136-151: 4. Sections
sections ==
    <<Stage("heading", reCmdStar("section"),
            "<h2 style=\"font-size:1.25rem;font-weight:600;margin-top:2.5rem;margin-bottom:1.25rem;color:var(--p-head);border-bottom:1px solid var(--p-border);padding-bottom:0.5rem;font-family:'Space Grotesk',sans-serif\">",
            "</h2>"),
      Stage("heading", reCmdStar("subsection"),
            "<h3 style=\"font-size:1.125rem;font-weight:600;margin-top:1.75rem;margin-bottom:0.75rem;color:var(--p-text);font-family:'Space Grotesk',sans-serif\">",
            "</h3>"),
      Stage("heading", reCmdStar("subsubsection"),
            "<h4 style=\"font-size:1rem;font-weight:600;margin-top:1.5rem;margin-bottom:0.5rem;color:var(--p-text);font-family:'Space Grotesk',sans-serif\">",
            "</h4>")>>

\* lines 153-169: 5. Verbatim / lstlisting
verbatim ==
    <<Stage("pre",
            <<Lit("\\begin{verbatim}"), Open(1), Lazy(ClsAny), Close(1),
              Lit("\\end{verbatim}")>>,
            "<pre style=\"background:var(--p-code);border:1px solid var(--p-border);border-radius:8px;padding:1rem;overflow-x:auto;margin:1.25rem 0\"><code style=\"font-family:'JetBrains Mono',monospace;font-size:0.8rem;color:var(--p-text);line-height:1.6\">",
            "</code></pre>"),
      Stage("pre",
            <<Lit("\\begin{lstlisting}"), OptGroup(<<Lit("["), Lazy(ClsAny), Lit("]")>>),
              Open(1), Lazy(ClsAny), Close(1), Lit("\\end{lstlisting}")>>,
            "<pre style=\"background:var(--p-code);border:1px solid var(--p-border);border-radius:8px;padding:1rem;overflow-x:auto;margin:1.25rem 0\"><code style=\"font-family:'JetBrains Mono',monospace;font-size:0.8rem;color:var(--p-text);line-height:1.6\">",
            "</code></pre>")>>

\* lines 171-178: 6. Blockquote
blockquote ==
    <<Stage("quote",
            <<Lit("\\begin{"), Alt(<<<<Lit("quote")>>, <<Lit("quotation")>>>>), Lit("}"),
              Open(1), Lazy(ClsAny), Close(1),
              Lit("\\end{"), Alt(<<<<Lit("quote")>>, <<Lit("quotation")>>>>), Lit("}")>>,
            "<blockquote style=\"border-left:3px solid var(--p-accent);margin:1.25rem 0;padding:0.75rem 1.25rem;color:var(--p-sec);font-style:italic;background:var(--p-code);border-radius:0 8px 8px 0\">",
            "</blockquote>")>>

\* lines 180-199: 7. Tables
tables ==
    <<Stage("table",
            <<Lit("\\begin{table}"), reOptArg, Open(1), Lazy(ClsAny), Close(1),
              Lit("\\end{table}")>>, "", ""),
      Stage("tabular", reTabular, "", "")>>

\* lines 201-254: 8. Lists
lists ==
    <<Stage("list", reEnv("itemize"),
            "<ul style=\"margin:1.25rem 0 1.25rem 1.25rem;list-style:disc;font-size:0.875rem\">",
            "</ul>"),
      Stage("list", reEnv("enumerate"),
            "<ol style=\"margin:1.25rem 0 1.25rem 1.25rem;list-style:decimal;font-size:0.875rem\">",
            "</ol>"),
      Stage("description", reEnv("description"),
            "<dl style=\"margin:1.25rem 0;font-size:0.875rem\">", "</dl>")>>

\* line 258: /(__BLK_\d+__|\n\s*\n)/
reParaSplit == <<Alt(<<reBlk, <<Lit("\n"), Star(ClsSpace), Lit("\n")>>>>)>>

\* paragraph without the test of line 262: a placeholder is wrapped too
paragraph_wrapAll(p) ==
    "<p style=\"margin-bottom:1.25rem;line-height:1.75;color:var(--p-sec);text-align:justify;font-size:0.875rem\">"
    \o ReplaceAll(<<Alt(<<<<Lit("\\newline")>>, <<Lit("\\\\")>>>>)>>, p, "<br/>")
    \o "</p>"

\* lines 261-264: the paragraph of one trimmed, non-empty piece
paragraph(p) ==
    IF StartsWith(p, "__BLK_") THEN p
    ELSE "<p style=\"margin-bottom:1.25rem;line-height:1.75;color:var(--p-sec);text-align:justify;font-size:0.875rem\">"
         \o ReplaceAll(<<Alt(<<<<Lit("\\newline")>>, <<Lit("\\\\")>>>>)>>, p, "<br/>")
         \o "</p>"

\* lines 257-265: the body before the blocks are put back
assemble(tex) ==
    LET pieces == SelectSeq(TrimAll(SplitKeep(tex, reParaSplit)), NonEmpty)
    IN  Join([k \in 1..Len(pieces) |-> paragraph(pieces[k])], "")

\* line 267: body.replace(/__BLK_\d+__/g, m => blocks[m] || ''), one pass
resolveBlocks(body, blocks) ==
    LET ms == AllMatches(reBlk, body)
        \* m => blocks[m] || ''
        blockOf(m) == IF m \in Keys(blocks) THEN Lookup(blocks, m) ELSE ""
    IN  Strict(body,
          replaceFrom(body, ms, [k \in 1..Len(ms) |-> blockOf(Whole(body, ms[k]))], 1))

\* lines 256-269 for the header and the tables st left by the stages
finish(header, st) ==
    [html |-> header \o resolveBlocks(assemble(st.tex), st.blocks), mathMap |-> st.mathMap]

\* lines 106-269 for the header and the tables hd = [header, st] of stage 2
afterHeader(hd) ==
    finish(hd.header,
           runStages(hd.st, inlineFormatting \o sections \o verbatim \o blockquote
                            \o tables \o lists))

\* lines 36-270
convertLatexToHtml(latexCode) ==
    IF latexCode = "" THEN [html |-> "", mathMap |-> <<>>]
    ELSE afterHeader(extractHeader(runStages(NewTables(stripPreamble(latexCode)),
                                             protectMath)))

\* m => mathMap[m] || m
mathOf(mathMap, m) ==
    IF m \in Keys(mathMap) /\ Lookup(mathMap, m) # "" THEN Lookup(mathMap, m) ELSE m

\* lines 272-273: html.replace(/__MTH_\d+__/g, m => mathMap[m] || m)
restoreMath(html, mathMap) ==
    LET ms == AllMatches(reMth, html)
    IN  replaceFrom(html, ms, [k \in 1..Len(ms) |-> mathOf(mathMap, Whole(html, ms[k]))], 1)

(***************************************************************************)
(* src/unnamed/part_001 (utils/coverPage)                                  *)
(***************************************************************************)
\* lines 6-58, with escapeLatex (lines 63-75) for the fields of the table;
\* the questions are put in as they are (line 8)
buildCoverPageBody(config) ==
    LET esc(text) ==
          ReplaceAll(<<Lit("^")>>,
          ReplaceAll(<<Lit("~")>>,
          ReplaceAll(<<Lit("}")>>,
          ReplaceAll(<<Lit("{")>>,
          ReplaceAll(<<Lit("_")>>,
          ReplaceAll(<<Lit("#")>>,
          ReplaceAll(<<Lit("$")>>,
          ReplaceAll(<<Lit("%")>>,
          ReplaceAll(<<Lit("&")>>,
          ReplaceAll(<<Lit("\\")>>, text, "\\textbackslash{}"),
          "\\&"), "\\%"), "\\$"), "\\#"), "\\_"), "\\{"), "\\}"),
          "\\textasciitilde{}"), "\\textasciicircum{}")
    IN
    Join(<<
         "\n",
         "\\begin{center}\n",
         "\\textbf{\\Large MADANAPALLE INSTITUTE OF TECHNOLOGY \\& SCIENCE}\\\\\n",
         "\\textbf{(UGC-AUTONOMOUS INSTITUTION)}\\\\\n",
         "Affiliated to JNTUA, Ananthapuramu \\& Approved by AICTE, New Delhi\\\\\n",
         "NAAC Accredited with A+ Grade\\\\\n",
         "NBA Accredited - B.Tech. (CIVIL, CSE, ECE, EEE, MECH), MBA \\& MCA\\\\[0.4cm]\n",
         "\n",
         "\\textbf{\\large DEPARTMENT OF COMPUTER SCIENCE \\& ENGINEERING - DATA SCIENCE}\\\\[0.5cm]\n",
         "\n",
         "\\textbf{\\Large Assignment Submission Details}\\\\\n",
         "AY-2025--26\n",
         "\\end{center}\n",
         "\n",
         "\\vspace{0.8cm}\n",
         "\n",
         "\\renewcommand{\\arraystretch}{1.5}\n",
         "\n",
         "\\begin{center}\n",
         "\\begin{tabular}{|p{6cm}|p{8cm}|}\n",
         "\\hline\n",
         "\\textbf{Subject} & ",
         esc(config.subject),
         " \\\\ \\hline\n",
         "\\textbf{Subject Code} & ",
         esc(config.subjectCode),
         " \\\\ \\hline\n",
         "\\textbf{Subject Name} & ",
         esc(config.subjectName),
         " \\\\ \\hline\n",
         "\\textbf{Name of the Student} & ",
         esc(config.studentName),
         " \\\\ \\hline\n",
         "\\textbf{Roll No.} & ",
         esc(config.rollNo),
         " \\\\ \\hline\n",
         "\\textbf{Year / Section} & ",
         esc(config.yearSection),
         " \\\\ \\hline\n",
         "\\textbf{Assignment No.} & ",
         esc(config.assignmentNo),
         " \\\\ \\hline\n",
         "\\textbf{Marks (Max 3)} & \\\\ \\hline\n",
         "\\textbf{Assignment Moodle Uploaded Date} & \\\\ \\hline\n",
         "\\textbf{Faculty Sign with Name \\& Date} & \\\\ \\hline\n",
         "\\end{tabular}\n",
         "\\end{center}\n",
         "\n",
         "\\vspace{1cm}\n",
         "\n",
         "\\renewcommand{\\arraystretch}{2}\n",
         "\n",
         "\\begin{center}\n",
         "\\begin{tabular}{|p{14cm}|}\n",
         "\\hline\n",
         Join([i \in 1..Len(config.questions) |->
                 "\\textbf{Q" \o ToString(i) \o ":} " \o config.questions[i]
                 \o " \\\\[1.5cm] \\hline"], "\n"),
         "\n",
         "\\end{tabular}\n",
         "\\end{center}\n",
         "\n",
         "\\newpage\n">>, "")

\* lines 80-97: for each required package the test of line 88 (the i flag
\* of the expression: the text and the name in lower case) and the insertion
\* before the first \begin{document}
\*   /\\usepackage(\[[^\]]*\])?\{[^}]*\bpkg\b[^}]*\}/i
ensurePreamblePackages(fullLatex) ==
    LET word == ClsOf(Lower \cup Upper \cup ClsDigit.set \cup {"_"})
        ensure(doc, pkg) ==
          IF Test(<<Lit("\\usepackage"),
                    OptGroup(<<Lit("["), Star(ClsNot({"]"})), Lit("]")>>),
                    Lit("{"), Star(ClsNot({"}"})), NotBehind(word), Lit(pkg),
                    NotAhead(word), Star(ClsNot({"}"})), Lit("}")>>, LowerOf(doc))
          THEN doc
          ELSE LET x == ExecFrom(<<Lit("\\begin{document}")>>, doc, 1)
               IN  IF x.at = 0 THEN doc
                   ELSE SubSeq(doc, 1, x.at - 1) \o "\\usepackage{" \o pkg
                        \o "}\n\\begin{document}" \o From(doc, x.m[1])
    IN  ensure(ensure(fullLatex, "array"), "geometry")

\* lines 103-118
injectCoverPage(fullLatex, config) ==
    IF ~config.enabled THEN fullLatex
    ELSE LET latex0 == ensurePreamblePackages(fullLatex)
             x == ExecFrom(<<Lit("\\begin{document}")>>, latex0, 1)
         IN  IF x.at = 0 THEN latex0
             ELSE SubSeq(latex0, 1, x.at - 1) \o "\\begin{document}\n"
                  \o buildCoverPageBody(config) \o From(latex0, x.m[1])

(***************************************************************************)
(* The state machine: the source is typed lexeme by lexeme; validateLatex  *)
(* and convertLatexToHtml are called on the source as it stands             *)
(* (src/components/ResultDisplay.tsx line 167, src/unnamed/part_003 line    *)
(* 787).  An edit discards the results of the older source.                *)
(***************************************************************************)
NoIssues == [done |-> FALSE, list |-> <<>>]
NoConv == [done |-> FALSE, html |-> "", mathMap |-> <<>>]

\* no call has been made: nothing is left behind
NoLocals == [envStack |-> <<>>, mathN |-> 0, prior |-> [envStack |-> <<>>, mathN |-> 0]]

\* the locals after a call that left envStack and mathN
Left(envStack, mathN) ==
    IF lex.watch
    THEN [envStack |-> envStack, mathN |-> mathN,
          prior |-> [envStack |-> locals.envStack, mathN |-> locals.mathN]]
    ELSE locals

\* the effect of lines 164-170 on the pending timers when result.latexCode
\* becomes src, without the clearTimeout of line 165
schedule_noClear(pending, src) == Append(pending, src)

\* lines 164-170: the effect run when result.latexCode becomes src
schedule(pending, src) == <<src>>

\* QuestionForm.tsx lines 8-18: the cover page of a form nobody has edited
DEFAULT_COVER ==
    [enabled |-> FALSE, studentName |-> "", rollNo |-> "24691A32W8",
     yearSection |-> "II Year -- CSD--E", subject |-> "CORE", subjectCode |-> "23CSD106",
     subjectName |-> "DATA ENGINEERING", assignmentNo |-> "I", questions |-> <<"", "", "">>]

InitLex(l) ==
    /\ lex = l
    /\ latex = ""
    /\ typed = 0
    /\ issues = NoIssues
    /\ conv = NoConv
    /\ locals = NoLocals
    /\ timers = schedule(<<>>, "")
    /\ validationIssues = <<>>
    /\ showCompileWarning = FALSE
    /\ isCompiling = FALSE
    /\ compileError = FALSE
    /\ pdfBlob = FALSE
    /\ pdfSource = ""
    /\ compiling = <<>>
    /\ requests = 0
    /\ isLoading = FALSE
    /\ result = "latex"
    /\ error = "none"
    /\ abortRef = FALSE
    /\ fetch = [state |-> "none", cacheable |-> FALSE, coverPage |-> DEFAULT_COVER]
    /\ cache = [kind |-> "none", code |-> ""]
    /\ generations = 0

InitWith(words, max) == InitLex([words |-> words, max |-> max, watch |-> FALSE])

\* onLatexChange: the source grows by one lexeme (App.tsx handleLatexUpdate
\* drops the PDF of the older source; the effect of ResultDisplay.tsx lines
\* 164-170 runs for the new source); the editor is rendered when the result
\* has a latexCode (ResultDisplay.tsx line 64)
Type ==
    /\ result = "latex"
    /\ typed < lex.max
    /\ \E l \in lex.words : latex' = latex \o l
    /\ typed' = typed + 1
    /\ issues' = NoIssues
    /\ conv' = NoConv
    /\ timers' = schedule(timers, latex')
    /\ pdfBlob' = FALSE
    /\ pdfSource' = ""
    /\ result' = "latex"
    /\ UNCHANGED <<lex, locals, validationIssues, showCompileWarning, isCompiling,
                   compileError, compiling, requests, isLoading, error, abortRef, fetch, cache,
                   generations>>

\* validateLatex(result.latexCode)
Validate ==
    /\ ~issues.done
    /\ issues' = [done |-> TRUE, list |-> validateLatex(latex)]
    /\ locals' = Left(IF latex = "" THEN locals.envStack ELSE envScan(latex).envStack,
                      locals.mathN)
    /\ UNCHANGED <<lex, latex, typed, conv, timers, validationIssues,
                   showCompileWarning, isCompiling, compileError, pdfBlob, pdfSource, compiling, requests,
                   isLoading, result, error, abortRef, fetch, cache, generations>>

\* convertLatexToHtml(latexCode)
Convert ==
    /\ ~conv.done
    /\ LET r == convertLatexToHtml(latex)
       IN  /\ conv' = [done |-> TRUE, html |-> r.html, mathMap |-> r.mathMap]
           /\ locals' = Left(locals.envStack,
                             IF latex = "" THEN locals.mathN ELSE Len(r.mathMap))
    /\ UNCHANGED <<lex, latex, typed, issues, timers, validationIssues,
                   showCompileWarning, isCompiling, compileError, pdfBlob, pdfSource, compiling, requests,
                   isLoading, result, error, abortRef, fetch, cache, generations>>

Next == Type \/ Validate \/ Convert

(***************************************************************************)
(* ResultDisplay: the debounced validation and the compile button          *)
(***************************************************************************)
MaxRequests == 2

\* line 166: the oldest pending timer expires
Expire ==
    /\ timers # <<>>
    /\ timers' = Tail(timers)

\* lines 166-168: the callback of the timer that expires
Fire ==
    /\ Expire
    /\ LET src == Head(timers)
       IN  /\ validationIssues' = (IF src # "" THEN validateLatex(src) ELSE <<>>)
           /\ locals' = Left(IF src = "" THEN locals.envStack ELSE envScan(src).envStack,
                             locals.mathN)
    /\ UNCHANGED <<lex, latex, typed, issues, conv, showCompileWarning, isCompiling,
                   compileError, pdfBlob, pdfSource, compiling, requests, isLoading, result, error, abortRef, fetch, cache, generations>>

\* lines 229-233 with any issue in place of the issues of type 'error'
compileGate_anyIssue(list, shown) == Len(list) > 0 /\ ~shown

\* lines 229-233: whether handleCompilePdf shows the warning and returns
compileGate(list, shown) ==
    Len(SelectSeq(list, LAMBDA i : i.type = "error")) > 0 /\ ~shown

\* lines 225-242: handleCompilePdf up to the call of compileToPdf, from the
\* compile button (disabled while compiling, line 372) or from the Compile
\* button of the warning (line 448)
CompileClick ==
    /\ ~isCompiling \/ showCompileWarning
    /\ latex # ""
    /\ requests < MaxRequests
    /\ IF compileGate(validationIssues, showCompileWarning)
       THEN /\ showCompileWarning' = TRUE
            /\ UNCHANGED <<isCompiling, compileError, compiling, requests>>
       ELSE /\ showCompileWarning' = FALSE
            /\ isCompiling' = TRUE
            /\ compileError' = FALSE
            /\ compiling' = Append(compiling, [src |-> latex, mounted |-> TRUE])
            /\ requests' = requests + 1
    /\ UNCHANGED <<lex, latex, typed, issues, conv, locals, timers, validationIssues,
                   pdfBlob, pdfSource, isLoading, result, error, abortRef, fetch, cache,
                   generations>>

\* line 449: the Cancel button of the warning
CancelWarning ==
    /\ showCompileWarning
    /\ showCompileWarning' = FALSE
    /\ UNCHANGED <<lex, latex, typed, issues, conv, locals, timers, validationIssues,
                   isCompiling, compileError, pdfBlob, pdfSource, compiling, requests, isLoading, result, error, abortRef, fetch, cache, generations>>

\* lines 243-268: a call of compileToPdf settles, with a PDF or without; the
\* state of an unmounted component is not set
CompileDone ==
    /\ compiling # <<>>
    /\ \E k \in 1..Len(compiling), success \in BOOLEAN :
          /\ compiling' = SubSeq(compiling, 1, k - 1) \o SubSeq(compiling, k + 1, Len(compiling))
          \* line 247, App.tsx lines 226-231
          /\ pdfBlob' = ((success /\ result # "null") \/ pdfBlob)
          /\ pdfSource' = (IF success /\ result # "null"
                           THEN compiling[k].src ELSE pdfSource)
          /\ IF compiling[k].mounted
             THEN compileError' = ~success /\ isCompiling' = FALSE
             ELSE UNCHANGED <<compileError, isCompiling>>
    /\ UNCHANGED <<lex, latex, typed, issues, conv, locals, timers, validationIssues,
                   showCompileWarning, requests, isLoading, result, error, abortRef, fetch,
                   cache, generations>>

NextDisplay == Type \/ Fire \/ CompileClick \/ CancelWarning \/ CompileDone

(***************************************************************************)
(* App: handleGenerate, handleCancel and the request of generateLatex      *)
(* (src/App.tsx lines 164-217, src/services/generationCache.ts lines       *)
(* 176-228).  The submit button is disabled while isLoading and for an     *)
(* empty question, the cancel button is shown while isLoading.  A promise  *)
(* that is settled runs its continuation before the next event, so the     *)
(* steps are: the handler up to the pending request, the events on the     *)
(* request, and the handler from the settled request on.  The response     *)
(* code stands for latex_code after injectCoverPage.                       *)
(***************************************************************************)
MaxGenerations == 2

\* the cover pages a form is submitted with (QuestionForm.tsx line 176): the
\* one of DEFAULT_COVER, the same switched on (line 306), and one switched on
\* with fields and question rows edited (lines 129-150)
Covers ==
    {DEFAULT_COVER,
     [DEFAULT_COVER EXCEPT !.enabled = TRUE],
     [enabled |-> TRUE, studentName |-> "Ann", rollNo |-> "R1", yearSection |-> "II",
      subject |-> "CORE", subjectCode |-> "C106", subjectName |-> "DATA",
      assignmentNo |-> "2", questions |-> <<"What">>]}

\* lines 201-206 with the message of every error shown as it is
errorOf_anyMessage(err) == err.message

\* lines 201-206: the error text of the catch block
errorOf(err) ==
    IF err.name = "AbortError" THEN "Generation cancelled." ELSE err.message

\* lines 182-197: the result and the error for the response text
parsed(text, coverPage) ==
    IF text.kind = "ok"
    THEN [result |-> "latex", error |-> "none",
          latexCode |-> IF coverPage.enabled THEN injectCoverPage(text.code, coverPage)
                        ELSE text.code]
    ELSE [result |-> "null",
          error |-> errorOf([name |-> "Error",
                             message |-> "Failed to parse response from AI."]),
          latexCode |-> ""]

\* setResult(r.result) with the error r.error, and what ResultDisplay does
\* for it: for null it is unmounted and its state is gone, for a code the
\* effect of lines 164-170 runs
Shown(r) ==
    /\ result' = r.result
    /\ error' = r.error
    /\ latex' = r.latexCode
    /\ issues' = NoIssues
    /\ conv' = NoConv
    /\ pdfBlob' = FALSE
    /\ pdfSource' = ""
    /\ compiling' = (IF r.result = "null"
                     THEN [k \in 1..Len(compiling) |-> [compiling[k] EXCEPT !.mounted = FALSE]]
                     ELSE compiling)
    /\ IF r.result = "null"
       THEN /\ timers' = <<>>
            /\ validationIssues' = <<>>
            /\ showCompileWarning' = FALSE
            /\ isCompiling' = FALSE
            /\ compileError' = FALSE
       ELSE /\ timers' = schedule(timers, r.latexCode)
            /\ UNCHANGED <<validationIssues, showCompileWarning, isCompiling, compileError>>

\* lines 164-180 and generationCache.ts lines 184-201: handleGenerate; a
\* cached text that is still valid is returned without a request and the
\* handler runs to its end
Generate ==
    /\ ~isLoading
    /\ generations < MaxGenerations
    /\ generations' = generations + 1
    /\ \E contextFile \in BOOLEAN, valid \in BOOLEAN, coverPage \in Covers :
          IF ~contextFile /\ cache.kind # "none" /\ valid
          THEN /\ Shown(parsed(cache, coverPage))
               /\ UNCHANGED <<isLoading, abortRef, fetch, cache>>
          ELSE /\ Shown([result |-> "empty", error |-> "none", latexCode |-> ""])
               /\ isLoading' = TRUE
               /\ abortRef' = TRUE
               /\ fetch' = [state |-> "pending", cacheable |-> ~contextFile,
                            coverPage |-> coverPage]
               /\ cache' = (IF contextFile THEN cache ELSE [kind |-> "none", code |-> ""])
    /\ UNCHANGED <<lex, typed, locals, requests>>

\* lines 215-217: handleCancel; the abort is mirrored on the request
\* (generationCache.ts line 196)
Cancel ==
    /\ isLoading
    /\ abortRef
    /\ fetch.state = "pending"
    /\ fetch' = [fetch EXCEPT !.state = "aborted"]
    /\ UNCHANGED <<lex, latex, typed, issues, conv, locals, timers, validationIssues,
                   showCompileWarning, isCompiling, compileError, pdfBlob, pdfSource, compiling, requests,
                   isLoading, result, error, abortRef, cache, generations>>

\* generationCache.ts line 192: the request is still pending after
\* API_TIMEOUT_MS
Timeout ==
    /\ fetch.state = "pending"
    /\ fetch' = [fetch EXCEPT !.state = "aborted"]
    /\ UNCHANGED <<lex, latex, typed, issues, conv, locals, timers, validationIssues,
                   showCompileWarning, isCompiling, compileError, pdfBlob, pdfSource, compiling, requests,
                   isLoading, result, error, abortRef, cache, generations>>

\* the pending request settles otherwise than by an abort: with a text (JSON
\* or not), with a status that is not ok, or with a network failure
\* (generationCache.ts lines 199-221, App.tsx lines 182-212)
Respond ==
    /\ fetch.state = "pending"
    /\ \E outcome \in {"ok", "bad", "status", "network"}, code \in lex.words :
          IF outcome \in {"ok", "bad"}
          THEN LET text == [kind |-> outcome, code |-> IF outcome = "ok" THEN code ELSE ""]
               IN  /\ Shown(parsed(text, fetch.coverPage))
                   /\ cache' = (IF fetch.cacheable THEN text ELSE cache)
          ELSE /\ Shown([result |-> "null",
                         error |-> errorOf([name |-> "Error", message |-> outcome]),
                         latexCode |-> ""])
               /\ UNCHANGED cache
    /\ isLoading' = FALSE
    /\ abortRef' = FALSE
    /\ fetch' = [fetch EXCEPT !.state = "none"]
    /\ UNCHANGED <<lex, typed, locals, requests, generations>>

\* the aborted request rejects with an AbortError (App.tsx lines 200-212)
Rejected ==
    /\ fetch.state = "aborted"
    /\ Shown([result |-> "null",
              error |-> errorOf([name |-> "AbortError",
                                 message |-> "signal is aborted without reason"]),
              latexCode |-> ""])
    /\ isLoading' = FALSE
    /\ abortRef' = FALSE
    /\ fetch' = [fetch EXCEPT !.state = "none"]
    /\ UNCHANGED <<lex, typed, locals, requests, cache, generations>>


(***************************************************************************)
(* The specifications: one per family of inputs.                           *)
(***************************************************************************)
MaxLexDecl == 3
MaxLexBrace == 5
MaxLexEnv == 4
MaxLexOrder == 3
MaxLexConv == 3
MaxLexForbid == 3
MaxLexCalls == 3
MaxLexDisplay == 3
MaxLexInline == 3
MaxLexList == 4
MaxLexApp == 1
MaxLexMath == 4
MaxLexPara == 4
MaxLexCover == 1

\* the three markers of the document structure check, and other text
LexDecl == {"\\documentclass{a}", "\\begin{document}", "\\end{document}", "x"}
\* braces, the backslash that escapes them, and other text
LexBrace == {"{", "}", "\\", "a"}
\* \begin and \end tokens of two names, one with white space before the brace
LexEnv == {"\\begin{a}", "\\end{a}", "\\begin{b}", "\\end{b}", "\\begin {a}"}
\* one trigger for each stage of the validator
LexOrder ==
    {"\\documentclass", "}", "\\begin{a}", "\\end{b}", "\\includegraphics", "$", "\\[",
     "\\(", "\\alpha"}
\* math spans, a list, a header command, a rule that repeats its argument,
\* a preamble command, prose and a blank line
LexConv ==
    {"$x$", "$$y$$", "\\begin{itemize}", "\\item ", "\\end{itemize}", "\\title{", "}",
     "\\url{", "\\label{a}", "a", "\n\n"}

\* environment tokens that leave frames or meet an empty stack, math spans
\* of both kinds, and prose
LexCalls == {"\\begin{a}", "\\end{a}", "$x$", "$$y$$", "a"}

\* prose, a line break, an inline span on one line and one on two lines
LexInline == {"Hello ", " world", "\n", "$x+1$", "$x\ny$"}

\* the ends of an itemize environment, the first with text before the first
\* \item, and two items with white space around their text
LexList == {"\\begin{itemize} p", "\\item A ", "\\item  B", "\\end{itemize}"}

\* the math delimiters and the backslash that escapes a $
LexMath == {"$", "$$", "\\[", "\\]", "\\(", "\\)", "\\"}

\* prose, a line end (two of them are a blank line), and three blocks: display
\* math, a heading and a quote
LexPara == {"a", " b", "\n", "$$y$$", "\\section{S}", "\\begin{quote}q\\end{quote}"}

\* the codes of the responses, and the edits of the code shown
LexApp == {"a", "}"}

\* a source without issues, one more warning, one more error
LexDisplay == {"\\documentclass{a}\\begin{document}\\end{document}", "$", "}"}

\* the forbidden command in three letter cases, a near miss, a closing brace
\* (an issue of another stage) and other text
LexForbid ==
    {"\\includegraphics", "\\IncludeGraphics{a}", "\\INCLUDEGRAPHICS", "\\includegraphic", "}",
     "s"}

Spec == InitWith(LexConv, MaxLexConv) /\ [][Next]_vars

SpecDecl == InitWith(LexDecl, MaxLexDecl) /\ [][Next]_vars

SpecBrace == InitWith(LexBrace, MaxLexBrace) /\ [][Next]_vars

SpecEnv == InitWith(LexEnv, MaxLexEnv) /\ [][Next]_vars

SpecOrder == InitWith(LexOrder, MaxLexOrder) /\ [][Next]_vars

SpecForbid == InitWith(LexForbid, MaxLexForbid) /\ [][Next]_vars

\* the calls of the two functions in any order, edit after edit, with the
\* locals they leave behind in view
SpecCalls == InitLex([words |-> LexCalls, max |-> MaxLexCalls, watch |-> TRUE]) /\ [][Next]_vars

\* the two functions over the math delimiters
SpecMath == InitWith(LexMath, MaxLexMath) /\ [][Next]_vars

\* the converter alone, over prose, blank lines and blocks
SpecPara == InitWith(LexPara, MaxLexPara) /\ [][Type \/ Convert]_vars

SpecInline == InitWith(LexInline, MaxLexInline) /\ [][Next]_vars
SpecList == InitWith(LexList, MaxLexList) /\ [][Next]_vars

\* App; the promise of an aborted request is rejected
\* whole documents as the model answers them, one that loads array with
\* options and in capitals, one without \begin{document}, and a lexeme typed
\* into the editor afterwards
LexCover ==
    {"\\documentclass{a}\\begin{document}x\\end{document}",
     "\\documentclass{a}\\USEPACKAGE[b]{c,Array}\\begin{document}\\[x\\]\\end{document}",
     "\\documentclass{a}", "$"}
SpecCover == InitWith(LexCover, MaxLexCover) /\ [][Generate \/ Respond \/ Type \/ Validate]_vars

SpecApp ==
    /\ InitWith(LexApp, MaxLexApp)
    /\ [][Generate \/ Cancel \/ Timeout \/ Respond \/ Rejected \/ Type]_vars
    /\ WF_vars(Rejected)

\* ResultDisplay; a timer that stays pending expires (setTimeout)
SpecDisplay == InitWith(LexDisplay, MaxLexDisplay) /\ [][NextDisplay]_vars /\ WF_timers(Expire)

(***************************************************************************)
(* What the claims speak of.                                               *)
(***************************************************************************)
\* the issues of the list whose message starts with prefix
IssuesWith(list, prefix) == SelectSeq(list, LAMBDA x : StartsWith(x.message, prefix))

MsgNoClass == "Missing \\documentclass declaration."
MsgNoBegin == "Missing \\begin{document}."
MsgNoEnd == "Missing \\end{document}."
MsgClosing == "Found closing brace \"}\" without matching opening brace."
MsgUnclosedBraces(n) == "Found " \o ToString(n) \o " unclosed brace(s) \"{\"."

\* the issues of the brace check: both of its messages start with "Found "
BraceIssues(list) == IssuesWith(list, "Found ")

\* the issues of the environment check
EnvIssues(list) ==
    SelectSeq(list, LAMBDA x : \/ StartsWith(x.message, "Extra \\end{")
                               \/ StartsWith(x.message, "Environment mismatch:")
                               \/ StartsWith(x.message, "Unclosed environment:"))

\* the brace depth after the first i characters, counted without the loop:
\* the unescaped opening braces less the unescaped closing braces
DepthAfter(s, i) ==
    Cardinality({k \in 1..i : CharAt(s, k) = "{" /\ ~isEscaped(s, k)})
    - Cardinality({k \in 1..i : CharAt(s, k) = "}" /\ ~isEscaped(s, k)})

NeverNegative(s) == \A i \in 1..Len(s) : DepthAfter(s, i) >= 0

\* C4: on a non-empty input validateLatex reports, for each of the three
\* markers \documentclass, \begin{document} and \end{document}, exactly one
\* error when the marker is absent and none when it is present, each marker
\* on its own.
C4_MissingMarkers ==
    (issues.done /\ latex # "") =>
        /\ IssuesWith(issues.list, MsgNoClass)
             = (IF Includes(latex, "\\documentclass") THEN <<>>
                ELSE <<Issue("error", MsgNoClass)>>)
        /\ IssuesWith(issues.list, MsgNoBegin)
             = (IF Includes(latex, "\\begin{document}") THEN <<>>
                ELSE <<Issue("error", MsgNoBegin)>>)
        /\ IssuesWith(issues.list, MsgNoEnd)
             = (IF Includes(latex, "\\end{document}") THEN <<>>
                ELSE <<Issue("error", MsgNoEnd)>>)

\* a validated input that has the first and the last marker and lacks the
\* middle one
C4_Witness ==
    /\ issues.done
    /\ Includes(latex, "\\documentclass")
    /\ ~Includes(latex, "\\begin{document}")
    /\ Includes(latex, "\\end{document}")
    /\ Len(IssuesWith(issues.list, "Missing ")) = 1

\* C5: when the unescaped braces never drive the depth below zero and n
\* opening braces stay unmatched at the end, validateLatex reports exactly one
\* brace error, which carries n, if n > 0, and no brace error if n = 0.
C5_UnclosedCount ==
    (issues.done /\ NeverNegative(latex)) =>
        LET n == DepthAfter(latex, Len(latex))
        IN  BraceIssues(issues.list)
              = (IF n > 0 THEN <<Issue("error", MsgUnclosedBraces(n))>> ELSE <<>>)

\* a validated input with two unmatched opening braces, a matched pair and an
\* escaped brace
C5_Witness ==
    /\ issues.done
    /\ NeverNegative(latex)
    /\ DepthAfter(latex, Len(latex)) = 2
    /\ \E k \in 1..Len(latex) : CharAt(latex, k) \in {"{", "}"} /\ isEscaped(latex, k)
    /\ BraceIssues(issues.list) = <<Issue("error", MsgUnclosedBraces(2))>>

\* C6: when an unescaped closing brace makes the depth negative, validateLatex
\* reports exactly one 'closing brace without matching opening brace' error,
\* the scan stops at that character, and no 'unclosed brace(s)' error is
\* reported, whatever braces follow.
C6_NegativeDepth ==
    (issues.done /\ ~NeverNegative(latex)) =>
        /\ BraceIssues(issues.list) = <<Issue("error", MsgClosing)>>
        /\ braceLoop(latex, 1, 0).brokeAt
             = Min({i \in 1..Len(latex) : DepthAfter(latex, i) < 0})

\* a validated input whose depth goes negative and whose later opening braces
\* would leave a positive depth at the end
C6_Witness ==
    /\ issues.done
    /\ ~NeverNegative(latex)
    /\ DepthAfter(latex, Len(latex)) > 0

\* whether a token list is well nested: cancelling a \begin{X} that is
\* directly followed by \end{X}, again and again, leaves nothing
RECURSIVE WellNested(_)
WellNested(toks) ==
    IF toks = <<>> THEN TRUE
    ELSE LET pairs == {k \in 1..(Len(toks) - 1) :
                          /\ toks[k].type = "begin"
                          /\ toks[k + 1].type = "end"
                          /\ toks[k].name = toks[k + 1].name}
         IN  IF pairs = {} THEN FALSE
             ELSE LET k == Min(pairs)
                  IN  WellNested(SubSeq(toks, 1, k - 1) \o SubSeq(toks, k + 2, Len(toks)))

\* C7: for an input whose \begin{X}/\end{X} tokens are well nested,
\* validateLatex reports no environment issue: no mismatch, no extra \end and
\* no unclosed environment.
C7_WellNestedNoIssue ==
    (issues.done /\ WellNested(envTokens(latex))) => EnvIssues(issues.list) = <<>>

\* a validated input with two environments of different names, one inside
\* the other
C7_Witness ==
    /\ issues.done
    /\ LET toks == envTokens(latex)
       IN  /\ Len(toks) = 4
           /\ WellNested(toks)
           /\ toks[1].type = "begin"
           /\ toks[2].type = "begin"
           /\ toks[1].name # toks[2].name

\* whether the tokens are \begin{A}, \end{B}, \end{A} with B different from A
MismatchThenClose(toks) ==
    /\ Len(toks) = 3
    /\ toks[1].type = "begin"
    /\ toks[2].type = "end"
    /\ toks[3].type = "end"
    /\ toks[2].name # toks[1].name
    /\ toks[3].name = toks[1].name

\* C8: for an input whose only tokens are \begin{A}, \end{B} with B different
\* from A, and \end{A}, validateLatex reports exactly one environment issue,
\* the mismatch error (expected A, found B).
C8_OneMismatch ==
    (issues.done /\ MismatchThenClose(envTokens(latex))) =>
        LET toks == envTokens(latex)
        IN  EnvIssues(issues.list)
              = <<Issue("error", "Environment mismatch: Expected \\end{" \o toks[1].name
                                 \o "} but found \\end{" \o toks[2].name \o "}.")>>

\* a validated input of that shape
C8_Witness == issues.done /\ MismatchThenClose(envTokens(latex))

\* C9: on the empty string validateLatex returns the empty issue list and
\* convertLatexToHtml returns the empty html and the empty mathMap.
C9_EmptyInput ==
    latex = "" =>
        /\ issues.done => issues.list = <<>>
        /\ conv.done => (conv.html = "" /\ conv.mathMap = <<>>)

\* both functions were called on the empty string
C9_Witness == latex = "" /\ issues.done /\ conv.done

\* the stage an issue comes from, by its message
StageOf(x) ==
    CASE x.message = MsgNoClass -> 1
      [] x.message = MsgNoBegin -> 2
      [] x.message = MsgNoEnd -> 3
      [] StartsWith(x.message, "Found ") -> 4
      [] StartsWith(x.message, "Extra \\end{") -> 5
      [] StartsWith(x.message, "Environment mismatch:") -> 5
      [] StartsWith(x.message, "Unclosed environment:") -> 6
      [] StartsWith(x.message, "Forbidden ") -> 7
      [] StartsWith(x.message, "Odd number of inline math delimiters") -> 8
      [] StartsWith(x.message, "Mismatched display math delimiters:") -> 9
      [] StartsWith(x.message, "Mismatched inline math delimiters:") -> 10
      [] StartsWith(x.message, "Math commands used outside math mode:") -> 11
      [] OTHER -> 0

\* C10: the issues are listed in the order of the stages: missing
\* declarations (class, begin, end), brace balance, environment scan errors,
\* unclosed environments, forbidden construct, odd inline $, \[ vs \],
\* \( vs \), math commands outside math; no issue of a later stage precedes an
\* issue of an earlier one, and every stage but the environment check gives
\* at most one issue.
C10_StageOrder ==
    issues.done =>
        /\ \A k \in 1..Len(issues.list) : StageOf(issues.list[k]) # 0
        /\ \A j, k \in 1..Len(issues.list) :
              j < k => /\ StageOf(issues.list[j]) <= StageOf(issues.list[k])
                       /\ StageOf(issues.list[j]) = StageOf(issues.list[k])
                            => StageOf(issues.list[j]) \in {5, 6}

\* a validated input with issues of the declaration, environment, forbidden
\* construct and math delimiter stages
C10_Witness ==
    /\ issues.done
    /\ \A n \in {1, 5, 7, 8} : \E k \in 1..Len(issues.list) : StageOf(issues.list[k]) = n

\* C1: the html returned by convertLatexToHtml contains no block placeholder
\* token __BLK_<n>__: every block placeholder minted during the call, also one
\* inside another block's stored HTML or inside the header, has been replaced
\* by its stored HTML.
C1_NoBlockPlaceholder == conv.done => ~Test(reBlk, conv.html)

\* C2: every key of the returned mathMap occurs exactly once in the returned
\* html.
C2_KeyOnce ==
    conv.done =>
        \A n \in 1..Len(conv.mathMap) : CountOcc(conv.html, conv.mathMap[n].k) = 1

\* C3: each value stored in mathMap is, byte for byte, a math span of the
\* original input, delimiters included.
C3_ValueIsSourceSpan ==
    conv.done =>
        \A n \in 1..Len(conv.mathMap) : Includes(latex, conv.mathMap[n].v)


MsgForbidden == "Forbidden \\includegraphics command - images are not supported."

\* s.toLowerCase(), letter by letter
ToLower(s) == Join([k \in 1..Len(s) |-> LowerOf(CharAt(s, k))], "")

\* C11: validateLatex reports exactly one forbidden-command error if and only
\* if the input contains \includegraphics in any letter case, however many
\* times it occurs and whatever other issues the input has or lacks.
C11_ForbiddenIff ==
    issues.done =>
        IssuesWith(issues.list, "Forbidden ")
          = (IF Includes(ToLower(latex), "\\includegraphics")
             THEN <<Issue("error", MsgForbidden)>> ELSE <<>>)

\* a validated input with the command twice, once not in lower case, and an
\* issue of the brace check
C11_Witness ==
    /\ issues.done
    /\ CountOcc(ToLower(latex), "\\includegraphics") = 2
    /\ ~Includes(latex, "\\includegraphics")
    /\ BraceIssues(issues.list) # <<>>
    /\ Len(IssuesWith(issues.list, "Forbidden ")) = 1


(***************************************************************************)
(* C12                                                                     *)
(***************************************************************************)
MathKey(n) == "__MTH_" \o ToString(n) \o "__"

\* C12: validateLatex and convertLatexToHtml share no state between calls.
\* After any sequence of edits and of calls of the two functions, in any
\* order, and whatever frames and counters the calls before left behind,
\* the math keys of the last result of convertLatexToHtml are __MTH_0__,
\* __MTH_1__, ... in order (the counter of the call started at 0), and in the
\* last result of validateLatex an \end that is the first token of the source
\* is an extra \end (the stack of the call started empty).
C12_NoSharedState ==
    /\ issues.done /\ envTokens(latex) # <<>> /\ envTokens(latex)[1].type = "end" =>
          /\ EnvIssues(issues.list) # <<>>
          /\ StartsWith(EnvIssues(issues.list)[1].message, "Extra \\end{")
    /\ conv.done =>
          \A k \in 1..Len(conv.mathMap) : conv.mathMap[k].k = MathKey(k - 1)

\* both functions have returned for a source that starts with an \end and
\* holds math, and the call made last found a frame and a counter above 0
\* left behind by calls on older sources
C12_Witness ==
    /\ issues.done
    /\ conv.done
    /\ envTokens(latex) # <<>>
    /\ envTokens(latex)[1].type = "end"
    /\ conv.mathMap # <<>>
    /\ locals.prior.envStack # <<>>
    /\ locals.prior.mathN > 0


(***************************************************************************)
(* C13, C14                                                                *)
(***************************************************************************)
ErrorsIn(list) == SelectSeq(list, LAMBDA i : i.type = "error")

\* C13: in ResultDisplay a compile action taken while validationIssues holds
\* an issue of type 'error' and the compile warning is not shown only shows
\* the warning and calls compileToPdf not; every other compile action (the
\* warning is shown already, or no issue is of type 'error') calls
\* compileToPdf once and hides the warning; and compileToPdf is never called
\* while an error is listed and the warning is not shown.
C13_CompileGate ==
    [][/\ CompileClick =>
            IF ErrorsIn(validationIssues) # <<>> /\ ~showCompileWarning
            THEN showCompileWarning' /\ requests' = requests /\ isCompiling' = isCompiling
            ELSE ~showCompileWarning' /\ requests' = requests + 1 /\ isCompiling'
       /\ requests' # requests =>
            ErrorsIn(validationIssues) = <<>> \/ showCompileWarning]_vars

\* one request went out (directly or after the confirmation) and a later
\* compile action, with an error listed, has only shown the warning
C13_Witness ==
    /\ showCompileWarning
    /\ ErrorsIn(validationIssues) # <<>>
    /\ requests = 1
    /\ ~isCompiling

\* C14: the validation of ResultDisplay is debounced, the last call wins.
\* At most one timer is pending; validationIssues is only ever written with
\* validateLatex of the source as it stands (never by the timer of an older
\* source); and once the edits stop validationIssues equals validateLatex of
\* the latest source for good (the empty list for the empty source).
C14_LastCallWins ==
    /\ [](Len(timers) <= 1)
    /\ [][validationIssues' # validationIssues =>
              validationIssues' = validateLatex(latex')]_vars
    /\ <>[](validationIssues = validateLatex(latex))

\* after two edits the only timer left has fired and written the issues of
\* the latest source, which differ from those of the source before
C14_Witness ==
    /\ typed = 2
    /\ latex = "}$"
    /\ timers = <<>>
    /\ validationIssues = validateLatex(latex)
    /\ validationIssues # validateLatex("}")


(***************************************************************************)
(* C15                                                                     *)
(***************************************************************************)
\* the display spans of s: the places <<p, q>> of a $$, a body of at least
\* one character without $, and a $$
DisplaySpans(s) ==
    {sp \in (1..Len(s)) \X (1..Len(s)) :
        /\ sp[2] >= sp[1] + 4
        /\ SubSeq(s, sp[1], sp[1] + 1) = "$$"
        /\ SubSeq(s, sp[2] - 1, sp[2]) = "$$"
        /\ ~Includes(SubSeq(s, sp[1] + 2, sp[2] - 2), "$")}

\* C15: a display span $$body$$ of the input is extracted as one unit: the
\* returned mathMap holds, for the spans of one text, as many entries whose
\* value is that text, the whole span with both delimiters, and no entry
\* whose value is the inner $body$ the single-$ rule would take from it.
C15_DisplayUnit ==
    conv.done =>
        \A sp \in DisplaySpans(latex) :
            LET text == SubSeq(latex, sp[1], sp[2])
            IN  /\ Cardinality({n \in 1..Len(conv.mathMap) : conv.mathMap[n].v = text})
                     = Cardinality({o \in DisplaySpans(latex) :
                                       SubSeq(latex, o[1], o[2]) = text})
                /\ \A n \in 1..Len(conv.mathMap) :
                       conv.mathMap[n].v # SubSeq(latex, sp[1] + 1, sp[2] - 1)


(***************************************************************************)
(* C16                                                                     *)
(***************************************************************************)
Dollars(s) == {i \in 1..Len(s) : CharAt(s, i) = "$"}

\* s is prose around one inline span: two $ with text in between
OneSpan(s) == Cardinality(Dollars(s)) = 2 /\ Max(Dollars(s)) - Min(Dollars(s)) >= 2

SpanOf(s) == SubSeq(s, Min(Dollars(s)), Max(Dollars(s)))

\* two line ends with nothing but white space in between
BlankLine(s) ==
    \E i, j \in 1..Len(s) :
        /\ i < j
        /\ CharAt(s, i) = "\n"
        /\ CharAt(s, j) = "\n"
        /\ \A k \in (i + 1)..(j - 1) : CharAt(s, k) \in WhiteSpace

\* one paragraph with the span replaced in place by __MTH_0__, and the
\* mathMap of that key and the literal span
OneParagraph(s) ==
    [html |-> paragraph(Trim(SubSeq(s, 1, Min(Dollars(s)) - 1) \o MathKey(0)
                             \o From(s, Max(Dollars(s)) + 1))),
     mathMap |-> <<[k |-> MathKey(0), v |-> SpanOf(s)]>>]

BeginItemize == "\\begin{itemize}"
EndItemize == "\\end{itemize}"

\* the body of the first itemize environment of s: the text between the
\* first \begin{itemize} and the first \end{itemize} after it
HasItemize(s) ==
    /\ Includes(s, BeginItemize)
    /\ Includes(From(s, IndexOf(s, BeginItemize) + Len(BeginItemize)), EndItemize)

ItemizeBody(s) ==
    LET rest == From(s, IndexOf(s, BeginItemize) + Len(BeginItemize))
    IN  SubSeq(rest, 1, IndexOf(rest, EndItemize) - 1)

\* the places of the \item commands of body, in source order
ItemPlaces(body) ==
    LET P == {i \in 1..Len(body) : StartsAt(body, i, "\\item")}
    IN  [j \in 1..Cardinality(P) |->
            CHOOSE p \in P : Cardinality({q \in P : q < p}) = j - 1]

\* the text after the j-th \item, up to the next \item or the end of body
ItemText(body, places, j) ==
    SubSeq(body, places[j] + 5,
           IF j < Len(places) THEN places[j + 1] - 1 ELSE Len(body))

\* the list block of the entries: one <li> for each \item, in source order,
\* with its text trimmed
UlOf(body) ==
    LET places == ItemPlaces(body)
    IN  "<ul style=\"margin:1.25rem 0 1.25rem 1.25rem;list-style:disc;font-size:0.875rem\">"
        \o Join([j \in 1..Len(places) |->
                   "<li style=\"padding-left:0.375rem;margin-bottom:0.375rem;color:var(--p-sec)\">"
                   \o Trim(ItemText(body, places, j)) \o "</li>"], "")
        \o "</ul>"

\* C17: for an itemize environment whose body holds k \item commands the
\* html holds one unordered-list block with exactly k entries, in source
\* order, each the trimmed text after its \item; the text before the first
\* \item gives no entry.  A source that is one such environment and nothing
\* else converts to that block alone.
C17_ItemizeEntries ==
    conv.done /\ HasItemize(latex) =>
        /\ Includes(conv.html, UlOf(ItemizeBody(latex)))
        /\ CountOcc(conv.html, "<li") >= Len(ItemPlaces(ItemizeBody(latex)))
        /\ (StartsWith(latex, BeginItemize) /\ CountOcc(latex, BeginItemize) = 1
            /\ IndexOf(latex, EndItemize) + Len(EndItemize) - 1 = Len(latex))
           => conv.html = UlOf(ItemizeBody(latex))

\* the list of two items, with text before the first \item
C17_Witness ==
    /\ conv.done
    /\ latex = "\\begin{itemize} p\\item A \\item  B\\end{itemize}"
    /\ CountOcc(conv.html, "<li") = 2
    /\ Includes(conv.html, ">A</li><li")
    /\ Includes(conv.html, ">B</li></ul>")
    /\ ~Includes(conv.html, "p<")


(***************************************************************************)
(* C18                                                                     *)
(***************************************************************************)
MsgCancelled == "Generation cancelled."

\* C18: a generation request that is aborted, by the cancel button or by the
\* timeout of 120 s, while it is in flight ends in the state isLoading =
\* false, result = null, error = 'Generation cancelled.': the request stays
\* aborted until the handler has set that state, it does get there, and no
\* step out of the aborted request stores a result.
C18_CancelledState ==
    /\ [][fetch.state = "aborted" =>
             \/ fetch'.state = "aborted" /\ isLoading' /\ result' # "latex"
             \/ /\ fetch'.state = "none"
                /\ ~isLoading'
                /\ result' = "null"
                /\ error' = MsgCancelled]_vars
    /\ (fetch.state = "aborted") ~> (~isLoading /\ result = "null" /\ error = MsgCancelled)

\* the second request was aborted and the app shows the cancellation, the
\* text of the first request being cached
C18_Witness ==
    /\ generations = 2
    /\ cache.kind = "ok"
    /\ fetch.state = "none"
    /\ ~isLoading
    /\ result = "null"
    /\ error = MsgCancelled


(***************************************************************************)
(* C19, C20: the tokens are counted without the stack.  Where no \end     *)
(* names another environment than the open one, every \end met on a stack  *)
(* that is not empty closes a frame, and the stack is a counter that stops *)
(* at 0.                                                                   *)
(***************************************************************************)
\* the tokens of the type among the j-th to the k-th
CountOf(toks, type, j, k) == Cardinality({i \in j..k : toks[i].type = type})

\* the \end tokens before the first \begin: the stack is empty at each of them
LeadingEnds(toks) ==
    Min({k \in 1..Len(toks) : toks[k].type = "begin"} \cup {Len(toks) + 1}) - 1

\* the \end tokens met on the empty counter: the greatest excess of \end
\* over \begin in a prefix of the tokens
ExtraEnds(toks) ==
    Max({CountOf(toks, "end", 1, k) - CountOf(toks, "begin", 1, k) : k \in 0..Len(toks)})

\* the places of the \begin tokens that no later \end closes, in source order
OpenPlaces(toks) ==
    SelectSeq([k \in 1..Len(toks) |-> k],
              LAMBDA k : /\ toks[k].type = "begin"
                         /\ \A j \in (k + 1)..Len(toks) :
                               CountOf(toks, "end", k + 1, j)
                                  <= CountOf(toks, "begin", k + 1, j))

MsgExtraEnd(name) == "Extra \\end{" \o name \o "} found."
MsgUnclosedEnv(name) == "Unclosed environment: \\begin{" \o name \o "}."

\* C19: an \end{name} met on the empty stack gives one 'Extra \end{name}'
\* error and leaves the stack empty.  The \end tokens before the first
\* \begin give one such error each, in order; and where no \end mismatches,
\* the Extra errors are as many as the \end tokens met on the empty counter
\* and the frames left are those of a scan in which each of these \end
\* tokens left nothing behind, a later \begin being pushed on the empty
\* stack.
C19_ExtraEnd ==
    issues.done =>
        LET toks == envTokens(latex)
            list == EnvIssues(issues.list)
            extra == IssuesWith(list, "Extra \\end{")
        IN  /\ Len(list) >= LeadingEnds(toks)
            /\ \A k \in 1..LeadingEnds(toks) :
                  list[k] = Issue("error", MsgExtraEnd(toks[k].name))
            /\ IssuesWith(list, "Environment mismatch:") = <<>> =>
                  /\ Len(extra) = ExtraEnds(toks)
                  /\ Len(list) = ExtraEnds(toks) + Len(OpenPlaces(toks))
                  /\ Len(IssuesWith(list, "Unclosed environment:"))
                        = CountOf(toks, "begin", 1, Len(toks))
                          - CountOf(toks, "end", 1, Len(toks)) + ExtraEnds(toks)

\* two \end on the empty stack, then an environment opened and closed
C19_Witness ==
    /\ issues.done
    /\ latex = "\\end{a}\\end{b}\\begin{a}\\end{a}"
    /\ EnvIssues(issues.list) = <<Issue("error", MsgExtraEnd("a")),
                                  Issue("error", MsgExtraEnd("b"))>>

\* C20: after the scan there is exactly one 'Unclosed environment' error
\* for each frame left on the stack, the outermost first: where no \end
\* mismatches, the errors name the \begin tokens that no later \end closes,
\* in source order; and the errors are always the last of the environment
\* check, with names that are \begin names.
C20_UnclosedOrder ==
    issues.done =>
        LET toks == envTokens(latex)
            list == EnvIssues(issues.list)
            unclosed == IssuesWith(list, "Unclosed environment:")
        IN  /\ unclosed = SubSeq(list, Len(list) - Len(unclosed) + 1, Len(list))
            /\ \A k \in 1..Len(unclosed) :
                  \E i \in 1..Len(toks) :
                     /\ toks[i].type = "begin"
                     /\ unclosed[k] = Issue("error", MsgUnclosedEnv(toks[i].name))
            /\ IssuesWith(list, "Environment mismatch:") = <<>> =>
                  unclosed = [k \in 1..Len(OpenPlaces(toks)) |->
                                 Issue("error", MsgUnclosedEnv(toks[OpenPlaces(toks)[k]].name))]

\* two environments of different names left open, one closed in between
C20_Witness ==
    /\ issues.done
    /\ latex = "\\begin{b}\\begin{a}\\end{a}\\begin{a}"
    /\ IssuesWith(issues.list, "Unclosed environment:")
          = <<Issue("error", MsgUnclosedEnv("b")), Issue("error", MsgUnclosedEnv("a"))>>


(***************************************************************************)
(* C21                                                                     *)
(***************************************************************************)
\* the number of consecutive backslashes that end right before position i
BackslashRun(s, i) == i - 1 - Max({k \in 1..(i - 1) : CharAt(s, k) # "\\"} \cup {0})

\* the depth after the first i characters when a brace counts unless exactly
\* one backslash stands before it
RunDepth(s, i) ==
    Cardinality({k \in 1..i : CharAt(s, k) = "{" /\ BackslashRun(s, k) # 1})
    - Cardinality({k \in 1..i : CharAt(s, k) = "}" /\ BackslashRun(s, k) # 1})

\* C21: a brace changes no depth exactly when the character before it is a
\* backslash and the one before that, if there is one, is none: a brace after
\* exactly one backslash is not counted, a brace after none or after two or
\* more is.  The brace errors of validateLatex are those of the depth counted
\* so: the closing-brace error when that depth goes below zero, else the
\* count of the braces left open, if any.
C21_EscapedBrace ==
    issues.done =>
        BraceIssues(issues.list)
          = (IF \E i \in 1..Len(latex) : RunDepth(latex, i) < 0
             THEN <<Issue("error", MsgClosing)>>
             ELSE IF RunDepth(latex, Len(latex)) > 0
                  THEN <<Issue("error", MsgUnclosedBraces(RunDepth(latex, Len(latex))))>>
                  ELSE <<>>)

\* a brace after one backslash and a brace after two: the second one counts
C21_Witness ==
    /\ issues.done
    /\ latex = "\\{\\\\{"
    /\ BraceIssues(issues.list) = <<Issue("error", MsgUnclosedBraces(1))>>


(***************************************************************************)
(* C22, C23: the spans are cut and the delimiters are counted by position, *)
(* without the regular expressions.                                        *)
(***************************************************************************)
\* s without its spans from open to the next close, taken from the left
RECURSIVE CutSpans(_, _, _)
CutSpans(s, open, close) ==
    IF IndexOf(s, open) = 0 THEN s
    ELSE LET rest == From(s, IndexOf(s, open) + Len(open))
         IN  IF IndexOf(rest, close) = 0 THEN s
             ELSE SubSeq(s, 1, IndexOf(s, open) - 1)
                  \o CutSpans(From(rest, IndexOf(rest, close) + Len(close)), open, close)

\* the $ of s that have no backslash and no $ before them and no $ after them
LoneDollars(s) ==
    {k \in 1..Len(s) : /\ CharAt(s, k) = "$"
                       /\ (k = 1 \/ CharAt(s, k - 1) \notin {"\\", "$"})
                       /\ (k = Len(s) \/ CharAt(s, k + 1) # "$")}

MsgOddDollar ==
    "Odd number of inline math delimiters ($) - possible unclosed math expression."

\* C22: validateLatex gives exactly one odd-inline-math warning if the source
\* without its $$...$$, \[...\] and \(...\) spans has an odd number of $ that
\* are not escaped and not next to another $, and no such warning if that
\* number is even or zero.
C22_OddDollar ==
    issues.done =>
        IssuesWith(issues.list, "Odd number of inline math")
          = (IF Cardinality(LoneDollars(
                    CutSpans(CutSpans(CutSpans(latex, "$$", "$$"), "\\[", "\\]"),
                             "\\(", "\\)"))) % 2 = 1
             THEN <<Issue("warning", MsgOddDollar)>>
             ELSE <<>>)

\* one $ inside a \[...\] span and one $ after it: the first is removed with
\* the span, the second is counted
C22_Witness ==
    /\ issues.done
    /\ latex = "\\[$\\]$"
    /\ IssuesWith(issues.list, "Odd number of inline math") = <<Issue("warning", MsgOddDollar)>>

MsgBrackets(open, close) ==
    "Mismatched display math delimiters: " \o ToString(open) \o " \\[ vs "
    \o ToString(close) \o " \\]."
MsgParens(open, close) ==
    "Mismatched inline math delimiters: " \o ToString(open) \o " \\( vs "
    \o ToString(close) \o " \\)."

\* C23: the delimiter check compares the numbers of occurrences in the raw
\* source only: one warning for \[ vs \] exactly when their counts differ,
\* and apart from it one for \( vs \) exactly when their counts differ,
\* whatever the order of the delimiters.
C23_DelimiterCounts ==
    issues.done =>
        /\ IssuesWith(issues.list, "Mismatched display math delimiters:")
             = (IF CountOcc(latex, "\\[") # CountOcc(latex, "\\]")
                THEN <<Issue("warning",
                             MsgBrackets(CountOcc(latex, "\\["), CountOcc(latex, "\\]")))>>
                ELSE <<>>)
        /\ IssuesWith(issues.list, "Mismatched inline math delimiters:")
             = (IF CountOcc(latex, "\\(") # CountOcc(latex, "\\)")
                THEN <<Issue("warning",
                             MsgParens(CountOcc(latex, "\\("), CountOcc(latex, "\\)")))>>
                ELSE <<>>)

\* \]\[ in the wrong order and one \( without its \): the only delimiter
\* warning is the one for \( vs \)
C23_Witness ==
    /\ issues.done
    /\ latex = "\\]\\[\\("
    /\ IssuesWith(issues.list, "Mismatched ") = <<Issue("warning", MsgParens(1, 0))>>


(***************************************************************************)
(* C24: the source is cut into prose segments and blocks by position, and  *)
(* the html expected for them is put together segment by segment.          *)
(***************************************************************************)
ParaOpen ==
    "<p style=\"margin-bottom:1.25rem;line-height:1.75;color:var(--p-sec);text-align:justify;font-size:0.875rem\">"

\* the length of the block construct or of the blank line (a line end, white
\* space, a line end, as far as it goes) that starts at position i of s, 0
\* when none starts there
SepAt(s, i) ==
    IF \E b \in LexPara : Len(b) > 1 /\ b # " b" /\ StartsAt(s, i, b)
    THEN Len(CHOOSE b \in LexPara : Len(b) > 1 /\ b # " b" /\ StartsAt(s, i, b))
    ELSE IF CharAt(s, i) # "\n" THEN 0
    ELSE Max({j \in (i + 1)..Len(s) :
                 /\ CharAt(s, j) = "\n"
                 /\ \A k \in i..j : CharAt(s, k) \in {"\n", " "}} \cup {i - 1}) - i + 1

\* the first position from i on at which a block or a blank line starts
NextSep(s, i) == Min({k \in i..Len(s) : SepAt(s, k) > 0} \cup {Len(s) + 1})

\* the html of the block that starts at position k of s, n display spans
\* having come before it; nothing for a blank line
BlockHtmlAt(s, k, n) ==
    IF StartsAt(s, k, "$$y$$") THEN MathKey(n)
    ELSE IF StartsAt(s, k, "\\section{S}") THEN sections[1].open \o "S" \o sections[1].close
    ELSE IF StartsAt(s, k, "\\begin{quote}")
         THEN blockquote[1].open \o "q" \o blockquote[1].close
    ELSE ""

\* the html expected for s from position i on: one paragraph for the prose
\* up to the next block or blank line, if it is not empty, then the block
\* as it is, then the rest
RECURSIVE ExpectedBody(_, _, _)
ExpectedBody(s, i, n) ==
    IF i > Len(s) THEN ""
    ELSE LET k == NextSep(s, i)
             seg == Trim(SubSeq(s, i, k - 1))
         IN  (IF seg = "" THEN "" ELSE ParaOpen \o seg \o "</p>")
             \o (IF k > Len(s) THEN ""
                 ELSE BlockHtmlAt(s, k, n)
                      \o ExpectedBody(s, k + SepAt(s, k),
                                      IF StartsAt(s, k, "$$y$$") THEN n + 1 ELSE n))

\* C24: in the html of convertLatexToHtml every non-empty prose segment
\* between blank lines and blocks is wrapped in exactly one paragraph element
\* and the stored HTML of every block stands outside the paragraph elements
\* of the assembler: the html is the row of the paragraphs of the segments
\* and of the blocks as they are stored, in source order.
C24_Paragraphs ==
    conv.done => conv.html = ExpectedBody(latex, 1, 0)

\* prose, a line end, a heading, and prose again: two paragraphs around the
\* heading
C24_Witness ==
    /\ conv.done
    /\ latex = "a\n\\section{S} b"
    /\ conv.html = ParaOpen \o "a</p>" \o sections[1].open \o "S" \o sections[1].close
                   \o ParaOpen \o "b</p>"


(***************************************************************************)
(* C25                                                                     *)
(***************************************************************************)
\* C25: in the list validateLatex returns, all issues of type 'error' come
\* before all issues of type 'warning'.
C25_ErrorsFirst ==
    issues.done =>
        /\ \A k \in 1..Len(issues.list) : issues.list[k].type \in {"error", "warning"}
        /\ \A j, k \in 1..Len(issues.list) :
              issues.list[j].type = "warning" /\ issues.list[k].type = "error" => k < j

\* the errors of three checks and a warning in one list
C25_Witness ==
    /\ issues.done
    /\ latex = "}\\includegraphics$"
    /\ Len(ErrorsIn(issues.list)) = 5
    /\ Len(issues.list) = 6


(***************************************************************************)
(* C26                                                                     *)
(***************************************************************************)
\* the state of the scan after the first k tokens
ScanOf(toks, k) == envLoop(SubSeq(toks, 1, k), 1, [envStack |-> <<>>, issues |-> <<>>])

\* C26: an \end token never makes the stack deeper, and a mismatched \end
\* leaves the stack as it was before the token; so the 'Unclosed
\* environment' errors are as many as the \begin tokens less the \end tokens
\* whose name was the name of the top frame when they were read (the \end
\* tokens that left no error).
C26_EndNeverPushes ==
    issues.done =>
        LET toks == envTokens(latex)
            list == EnvIssues(issues.list)
        IN  /\ \A k \in 1..Len(toks) :
                  toks[k].type = "end" =>
                     LET before == ScanOf(toks, k - 1)
                         after == ScanOf(toks, k)
                     IN  /\ Len(after.envStack) <= Len(before.envStack)
                         /\ IssuesWith(after.issues, "Environment mismatch:")
                              # IssuesWith(before.issues, "Environment mismatch:")
                               => after.envStack = before.envStack
            /\ Len(IssuesWith(list, "Unclosed environment:"))
                 = CountOf(toks, "begin", 1, Len(toks))
                   - (CountOf(toks, "end", 1, Len(toks))
                      - Len(IssuesWith(list, "Extra \\end{"))
                      - Len(IssuesWith(list, "Environment mismatch:")))

\* two frames, a mismatched \end and a matching one: the mismatch left both
\* frames, the match closed the inner one
C26_Witness ==
    /\ issues.done
    /\ latex = "\\begin{a}\\begin{b}\\end{a}\\end{b}"
    /\ EnvIssues(issues.list)
         = <<Issue("error", "Environment mismatch: Expected \\end{b} but found \\end{a}."),
             Issue("error", MsgUnclosedEnv("a"))>>


(***************************************************************************)
(* C27                                                                     *)
(***************************************************************************)
\* C27: restoreMath applied to the html and the mathMap that
\* convertLatexToHtml returns leaves no math placeholder token, also when a
\* token sits inside the stored source of another entry.
C27_NoTokenLeft ==
    conv.done => ~Test(reMth, restoreMath(conv.html, conv.mathMap))


(***************************************************************************)
(* C28                                                                     *)
(***************************************************************************)
\* C28: whenever result.pdfBlob is present it was compiled from the current
\* result.latexCode: an edit clears it, and a compilation started for an
\* older source does not attach its PDF to the newer source.
C28_PdfOfCurrentSource == pdfBlob => pdfSource = latex


(***************************************************************************)
(* C29                                                                     *)
(***************************************************************************)
\* C29: whenever a compile request is sent without the warning having been
\* shown, validateLatex of the source sent has no issue of type 'error': the
\* issues the gate reads are never those of an older source.
C29_GateSeesCurrentSource ==
    [][requests' # requests /\ ~showCompileWarning
          => ErrorsIn(validateLatex(latex)) = <<>>]_vars

\* the characters of a field value that is plain
Plain(config) ==
    \A f \in {"studentName", "rollNo", "yearSection", "subject", "subjectCode",
              "subjectName", "assignmentNo"} :
       \A k \in 1..Len(config[f]) : CharAt(config[f], k) \in Lower \cup Upper \cup ClsDigit.set

\* C30: when the answered document has \begin{document} and an empty issue
\* list, the document shown for it with an enabled cover page of plain field
\* values has an empty issue list too, once it is validated.
C30_CoverAddsNoIssue ==
    (/\ result = "latex"
     /\ issues.done
     /\ cache.kind = "ok"
     /\ Includes(cache.code, "\\begin{document}")
     /\ validateLatex(cache.code) = <<>>
     /\ \E c \in Covers : c.enabled /\ Plain(c) /\ latex = injectCoverPage(cache.code, c))
    => issues.list = <<>>
====
